---- MODULE Spec2Model ----
(***************************************************************************)
(* Model of the LLM orchestration core of stranske/trip-planner:           *)
(*   - scripts/langchain/structured_output.py  (schema validation with one *)
(*     bounded repair round-trip), specification SpecParse;                *)
(*   - scripts/langchain/verdict_policy.py (worst / majority verdict       *)
(*     resolution and split-verdict escalation), specification SpecVerdict.*)
(* Texts are Python str values.  Where only validity matters they are      *)
(* atoms; where the code lower-cases, strips or compares them they are     *)
(* sequences of character codes.  Confidences are in hundredths.           *)
(***************************************************************************)
EXTENDS Integers, Sequences, FiniteSets, TLC

VARIABLES
    so_pc,            \* position inside parse_structured_output / invoke_repair_loop
    so_entry,         \* which public function was called: "parse" or "loop"
    so_content,       \* content argument (the raw LLM answer)
    so_repair,        \* repair argument: "absent", "callback" or "raw"
    so_max,           \* max_repair_attempts as passed by the caller
    so_attempts,      \* attempts as received by _invoke_repair_loop
    so_detail,        \* error_detail of the direct validation
    so_response,      \* what the backend / raw repair function produced
    so_repaired,      \* value returned by repair(...)
    so_result,        \* the StructuredOutputResult returned
    so_repair_calls,  \* number of invocations of the repair function
    so_validations,   \* number of model_validate_json calls
    vp_pc,            \* "collect" while the verdict list is built, then "done"
    vp_list,          \* the list of ProviderVerdict passed to evaluate_verdict_policy
    vp_policy,        \* the policy argument
    vp_result,        \* the VerdictPolicyResult returned
    cal_pc,           \* "idle" before _validate_confidence is called, then "done"
    cal_args,         \* the arguments of the _validate_confidence call
    cal_result,       \* the (adjusted confidence, warnings) returned
    rs_pc,            \* "idle" before a build_chat_client(s) call, then "done"
    rs_env,           \* environment variables, slot configuration, libraries
    rs_call,          \* the function called and its arguments
    rs_result,        \* the ClientInfo handles returned (none, one or two)
    fb_pc,            \* position in evaluate_pr / analyze_issue
    fb_call,          \* the function called and its arguments
    fb_env,           \* the environment the call runs in
    fb_primary,       \* the client resolved first (none or one ClientInfo)
    fb_substitute,    \* the client resolved after a failure (none or one)
    fb_log,           \* every client resolution and invocation so far
    fb_outcome,       \* how the call returned
    fb_exc,           \* what the first invocation did (x_ok or an exception)
    fb_parsed,        \* the StructuredOutputResult of _parse_llm_response
    fb_result,        \* the EvaluationResult evaluate_pr returned
    pen_pc,           \* "idle" before calc_penalty is called, then "done"
    pen_args,         \* the arguments of the calc_penalty call
    pen_result,       \* the penalty returned, in units of 1 / PenaltyScale
    ch_pc,            \* position in FallbackChainProvider.analyze_completion
    ch_providers,     \* self._providers, the provider classes in list order
    ch_env,           \* the environment the providers read
    ch_index,         \* index of the provider the loop is at
    ch_log,           \* what the loop did with each provider, in time order
    ch_last_error,    \* last_error: none, or the provider that raised last
    ch_result,        \* the CompletionAnalysis returned (none or one)
    mu_pc,            \* position in evaluate_pr_multiple
    mu_env,           \* the environment the call runs in
    mu_call,          \* the model1 and model2 arguments
    mu_clients,       \* runner.clients, the ClientInfo handles in resolution order
    mu_invoked,       \* what each run_single invocation did, in time order
    mu_parsed,        \* the StructuredOutputResult of each run_single
    mu_results,       \* the list of EvaluationResult built so far, then returned
    dg_pc,            \* position in decompose_task / extract_context / format_issue_body
    dg_call,          \* the function called, use_llm and what its input checks found
    dg_env,           \* the environment the call runs in
    dg_provider,      \* provider of the client in use, NoText when there is none
    dg_log,           \* every chain.invoke so far: the provider and what it did
    dg_outcome        \* how the call ended

so_vars == << so_pc, so_entry, so_content, so_repair, so_max, so_attempts,
              so_detail, so_response, so_repaired, so_result,
              so_repair_calls, so_validations >>

vp_vars == << vp_pc, vp_list, vp_policy, vp_result >>

cal_vars == << cal_pc, cal_args, cal_result >>

rs_vars == << rs_pc, rs_env, rs_call, rs_result >>

fb_vars ==
    << fb_pc, fb_call, fb_env, fb_primary, fb_substitute, fb_log, fb_outcome,
       fb_exc, fb_parsed, fb_result >>

pen_vars == << pen_pc, pen_args, pen_result >>

ch_vars ==
    << ch_pc, ch_providers, ch_env, ch_index, ch_log, ch_last_error,
       ch_result >>

mu_vars ==
    << mu_pc, mu_env, mu_call, mu_clients, mu_invoked, mu_parsed, mu_results >>

dg_vars ==
    << dg_pc, dg_call, dg_env, dg_provider, dg_log, dg_outcome >>

vars ==
    << so_vars, vp_vars, cal_vars, rs_vars, fb_vars, pen_vars, ch_vars, mu_vars, dg_vars >>

\* what the actions of one component leave unchanged
so_frame ==
    << vp_vars, cal_vars, rs_vars, fb_vars, pen_vars, ch_vars, mu_vars, dg_vars >>
vp_frame ==
    << so_vars, cal_vars, rs_vars, fb_vars, pen_vars, ch_vars, mu_vars, dg_vars >>
cal_frame ==
    << so_vars, vp_vars, rs_vars, fb_vars, pen_vars, ch_vars, mu_vars, dg_vars >>
rs_frame ==
    << so_vars, vp_vars, cal_vars, fb_vars, pen_vars, ch_vars, mu_vars, dg_vars >>
fb_frame ==
    << so_vars, vp_vars, cal_vars, rs_vars, pen_vars, ch_vars, mu_vars, dg_vars >>
pen_frame ==
    << so_vars, vp_vars, cal_vars, rs_vars, fb_vars, ch_vars, mu_vars, dg_vars >>
ch_frame ==
    << so_vars, vp_vars, cal_vars, rs_vars, fb_vars, pen_vars, mu_vars, dg_vars >>
mu_frame ==
    << so_vars, vp_vars, cal_vars, rs_vars, fb_vars, pen_vars, ch_vars, dg_vars >>
dg_frame ==
    << so_vars, vp_vars, cal_vars, rs_vars, fb_vars, pen_vars, ch_vars, mu_vars >>

----------------------------------------------------------------------------
(* Bounds of the model *)

\* largest max_repair_attempts / attempts argument tried (smallest is -1)
MaxAttemptsArg == 3

\* longest list of provider verdicts evaluated
MaxVerdicts == 3

\* largest completed_count / in_progress_count passed to _validate_confidence
MaxTaskCount == 1

\* segment_cost is 1 (budget), 2 (mid) or 3 (premium)
MaxSegmentCost == 3

\* global_significance is 1 to 5
MaxGlobalSignificance == 5

\* longest provider list given to a FallbackChainProvider
MaxProviders == 3

----------------------------------------------------------------------------
(* structured_output.py *)

MIN_REPAIR_ATTEMPTS == 0
MAX_REPAIR_ATTEMPTS == 1

NoText == "<None>"       \* Python None where a str is expected
NoPayload == << >>       \* payload = None
NoDetail == << >>        \* error_detail = None

\* Response texts.  "ok1", "ok2" satisfy the schema; "bad1", "bad2" and the
\* empty text raise ValidationError; "boom" makes a validator raise another
\* exception.  MsgRepr is str(message) of a message object whose content is
\* empty, "None" is str(None): neither is JSON.
MsgRepr == "content='' additional_kwargs={}"
ValidTexts == {"ok1", "ok2"}
OtherErrorTexts == {"boom"}
Texts == {"ok1", "ok2", "bad1", "bad2", "boom", ""}

Min(a, b) == IF a <= b THEN a ELSE b
Max(a, b) == IF a >= b THEN a ELSE b

\* Python truthiness of an optional str
Truthy(t) == t # NoText /\ t # ""

format_validation_errors(text) == << "ValidationError", text >>
format_non_validation_error(text) == << "Exception", text >>

\* model.model_validate_json(text) with the except clauses that follow it:
\* the payload, or the formatted error detail.
model_validate_json(text) ==
    IF text \in ValidTexts
    THEN [ok |-> TRUE, payload |-> << text >>, detail |-> NoDetail]
    ELSE IF text \in OtherErrorTexts
    THEN [ok |-> FALSE, payload |-> NoPayload,
          detail |-> format_non_validation_error(text)]
    ELSE [ok |-> FALSE, payload |-> NoPayload,
          detail |-> format_validation_errors(text)]

StructuredOutputResult(payload, raw, stage, detail, used) ==
    [payload |-> payload, raw_content |-> raw, error_stage |-> stage,
     error_detail |-> detail, repair_attempts_used |-> used]

NoResult == StructuredOutputResult(NoPayload, NoText, "pending", NoDetail, 0)

clamp_repair_attempts(max_repair_attempts) ==
    Min(MAX_REPAIR_ATTEMPTS, Max(MIN_REPAIR_ATTEMPTS, max_repair_attempts))

\* Backend responses seen by the callback of build_repair_callback:
\* client.invoke raises (or times out), returns a message object with a
\* content attribute, returns a plain str, or returns None.
BackendResponses ==
    {[kind |-> "raise", text |-> NoText], [kind |-> "null", text |-> NoText]}
    \cup {[kind |-> "message", text |-> t] : t \in Texts \cup {NoText}}
    \cup {[kind |-> "string", text |-> t] : t \in Texts}

\* Outcomes of a repair function that is not built by build_repair_callback:
\* it raises, or returns None or a text.
RawOutcomes ==
    {[kind |-> "raise", text |-> NoText]}
    \cup {[kind |-> "return", text |-> t] : t \in Texts \cup {NoText}}

\* getattr(response, "content", None)
ContentOf(response) ==
    IF response.kind = "message" THEN response.text ELSE NoText

\* str(response)
StrOf(response) ==
    CASE response.kind = "message" -> MsgRepr
      [] response.kind = "string" -> response.text
      [] OTHER -> "None"

\* _repair of build_repair_callback: an exception of client.invoke becomes
\* None, otherwise  getattr(response, "content", None) or str(response).
build_repair_callback(response) ==
    IF response.kind = "raise"
    THEN [raised |-> FALSE, value |-> NoText]
    ELSE [raised |-> FALSE,
          value |-> IF Truthy(ContentOf(response))
                    THEN ContentOf(response) ELSE StrOf(response)]

\* a repair function passed directly
raw_repair(outcome) ==
    [raised |-> outcome.kind = "raise", value |-> outcome.text]

NoRepairResultAsUnavailable(error_detail) ==
    StructuredOutputResult(NoPayload, NoText, "repair_unavailable", error_detail, 0)

\* _invoke_repair_loop, the result of the branch  repair is None or attempts == 0
NoRepairResult(error_detail) ==
    StructuredOutputResult(NoPayload, NoText, "validation", error_detail, 0)

RepairUnavailableResultNoStage(error_detail) ==
    StructuredOutputResult(NoPayload, NoText, "none", error_detail, 1)

\* _invoke_repair_loop, the result of the branch  not repaired
RepairUnavailableResult(error_detail) ==
    StructuredOutputResult(NoPayload, NoText, "repair_unavailable", error_detail, 1)

RepairedResultKeepsFirstDetail(repaired, error_detail) ==
    LET v == model_validate_json(repaired)
    IN IF v.ok
       THEN StructuredOutputResult(v.payload, repaired, "none", NoDetail, 1)
       ELSE StructuredOutputResult(NoPayload, NoText, "repair_validation",
                                   error_detail, 1)

\* _invoke_repair_loop, validation of the repaired text and the result built
\* from it (error_detail is the detail of the direct validation)
RepairedResult(repaired, error_detail) ==
    LET v == model_validate_json(repaired)
    IN IF v.ok
       THEN StructuredOutputResult(v.payload, repaired, "none", NoDetail, 1)
       ELSE StructuredOutputResult(NoPayload, NoText, "repair_validation",
                                   v.detail, 1)

RepairAgainWhileBudget(attempts, used, result) ==
    result.error_stage = "repair_validation" /\ used <= attempts

\* _invoke_repair_loop has no loop: after the validation of the repaired
\* text every branch returns, whatever attempts is.
RepairAgain(attempts, used, result) == FALSE

\* _invoke_repair_loop up to the call of repair: TRUE when the function
\* returns at once
NoRepairStep(repair, attempts) == repair = "absent" \/ attempts = 0

SoInit ==
    /\ so_pc = "idle"
    /\ so_entry = "none"
    /\ so_content = NoText
    /\ so_repair = "absent"
    /\ so_max = 0
    /\ so_attempts = 0
    /\ so_detail = NoDetail
    /\ so_response = [kind |-> "none", text |-> NoText]
    /\ so_repaired = NoText
    /\ so_result = NoResult
    /\ so_repair_calls = 0
    /\ so_validations = 0

\* Entry into _invoke_repair_loop with the given arguments.
EnterRepairLoop(repair, attempts, error_detail) ==
    /\ so_attempts' = attempts
    /\ so_detail' = error_detail
    /\ IF NoRepairStep(repair, attempts)
       THEN /\ so_result' = NoRepairResult(error_detail)
            /\ so_pc' = "done"
       ELSE /\ so_result' = so_result
            /\ so_pc' = "repair"

\* parse_structured_output(content, model, repair=..., max_repair_attempts=...)
\* up to its return or to the call of the repair function.
ParseStructuredOutput ==
    /\ so_pc = "idle"
    /\ \E content \in Texts, repair \in {"absent", "callback", "raw"},
          max_repair_attempts \in -1 .. MaxAttemptsArg :
        LET v == model_validate_json(content)
        IN /\ so_entry' = "parse"
           /\ so_content' = content
           /\ so_repair' = repair
           /\ so_max' = max_repair_attempts
           /\ so_validations' = so_validations + 1
           /\ IF v.ok
              THEN /\ so_result' =
                        StructuredOutputResult(v.payload, content, "none", NoDetail, 0)
                   /\ so_pc' = "done"
                   /\ UNCHANGED << so_attempts, so_detail >>
              ELSE EnterRepairLoop(repair,
                       clamp_repair_attempts(max_repair_attempts), v.detail)
    /\ UNCHANGED << so_response, so_repaired, so_repair_calls >>
    /\ UNCHANGED so_frame

\* invoke_repair_loop(repair=..., attempts=..., error_detail=..., content=...)
\* called directly, up to its return or to the call of the repair function.
InvokeRepairLoop ==
    /\ so_pc = "idle"
    /\ \E content \in Texts \ ValidTexts, repair \in {"absent", "callback", "raw"},
          attempts \in -1 .. MaxAttemptsArg :
        /\ so_entry' = "loop"
        /\ so_content' = content
        /\ so_repair' = repair
        /\ so_max' = attempts
        /\ EnterRepairLoop(repair, attempts, model_validate_json(content).detail)
    /\ UNCHANGED << so_response, so_repaired, so_repair_calls, so_validations >>
    /\ UNCHANGED so_frame

\* repaired = repair(schema_json(model), error_detail, content)
RepairInvoke ==
    /\ so_pc = "repair"
    /\ \E response \in (IF so_repair = "callback" THEN BackendResponses
                                                 ELSE RawOutcomes) :
        LET r == IF so_repair = "callback" THEN build_repair_callback(response)
                                           ELSE raw_repair(response)
        IN /\ so_response' = response
           /\ so_repair_calls' = so_repair_calls + 1
           /\ IF r.raised
              THEN /\ so_pc' = "raised"
                   /\ so_repaired' = so_repaired
              ELSE /\ so_pc' = "repaired"
                   /\ so_repaired' = r.value
    /\ UNCHANGED << so_entry, so_content, so_repair, so_max, so_attempts,
                    so_detail, so_result, so_validations >>
    /\ UNCHANGED so_frame

\* _invoke_repair_loop from  if not repaired  to its return
RepairFinish ==
    /\ so_pc = "repaired"
    /\ LET result == IF ~Truthy(so_repaired)
                     THEN RepairUnavailableResult(so_detail)
                     ELSE RepairedResult(so_repaired, so_detail)
       IN /\ so_validations' =
                IF Truthy(so_repaired) THEN so_validations + 1 ELSE so_validations
          /\ IF RepairAgain(so_attempts, so_repair_calls, result)
             THEN /\ so_pc' = "repair"
                  /\ so_result' = so_result
             ELSE /\ so_pc' = "done"
                  /\ so_result' = result
    /\ UNCHANGED << so_entry, so_content, so_repair, so_max, so_attempts,
                    so_detail, so_response, so_repaired, so_repair_calls >>
    /\ UNCHANGED so_frame

----------------------------------------------------------------------------
(* Properties of structured_output.py, checked under SpecParse *)

\* the direct validation of the content failed
DirectValidationFailed == so_detail # NoDetail

\* C1: one parse_structured_output call invokes the repair function at most
\* once, whatever max_repair_attempts is: at most 2 LLM calls (the original
\* answer plus one repair) and at most 2 validations serve it, and
\* repair_attempts_used is never greater than 1.
C1_RepairBounded ==
    so_entry = "parse" =>
        /\ so_repair_calls <= 1
        /\ 1 + so_repair_calls <= 2
        /\ so_validations <= 2
        /\ so_pc = "done" => so_result.repair_attempts_used <= 1

\* C1 witness: max_repair_attempts above 1, the repaired text failed
\* validation, and the call has returned after one repair.
C1_Witness ==
    /\ so_entry = "parse" /\ so_pc = "done" /\ so_max > 1
    /\ so_repair_calls = 1
    /\ so_result.error_stage = "repair_validation"

\* C7: every returned StructuredOutputResult has a payload if and only if
\* error_stage is none; a success has no error_detail, a failure no payload.
C7_PayloadIffNoError ==
    so_pc = "done" =>
        /\ (so_result.payload # NoPayload) <=> (so_result.error_stage = "none")
        /\ so_result.error_stage = "none" => so_result.error_detail = NoDetail
        /\ so_result.error_stage \in
              {"none", "validation", "repair_unavailable", "repair_validation"}

\* C7 witness: invoke_repair_loop returned a failure after an empty repair
\* answer (no payload, error_stage set).
C7_Witness ==
    /\ so_pc = "done" /\ so_entry = "loop"
    /\ so_repair_calls = 1 /\ ~Truthy(so_repaired)
    /\ so_result.payload = NoPayload

C9_RepairedTextDecides ==
    (so_pc = "done" /\ DirectValidationFailed /\ so_repair_calls >= 1
        /\ Truthy(so_repaired)) =>
        IF so_repaired \in ValidTexts
        THEN /\ so_result.payload = << so_repaired >>
             /\ so_result.error_stage = "none"
             /\ so_result.repair_attempts_used = 1
             /\ so_result.raw_content = so_repaired
        ELSE /\ so_result.payload = NoPayload
             /\ so_result.error_stage = "repair_validation"
             /\ so_result.repair_attempts_used = 1
             /\ so_result.error_detail[2] = so_repaired
             /\ so_repaired # so_content => so_result.error_detail # so_detail

\* C9 witness: the repaired text is another invalid text than the original.
C9_Witness ==
    /\ so_pc = "done" /\ so_entry = "parse" /\ DirectValidationFailed
    /\ Truthy(so_repaired) /\ so_repaired \notin ValidTexts
    /\ so_repaired # so_content

\* the repair round-trip failed: the backend call raised (or timed out), or
\* yielded null or empty text
RoundTripFailed ==
    \/ so_response.kind \in {"raise", "null"}
    \/ so_response.kind \in {"message", "string"} /\ ~Truthy(so_response.text)

\* C10 as stated: when the repair round-trip of a build_repair_callback
\* callback fails, parse_structured_output returns repair_unavailable without
\* payload, no exception escapes and the repaired text is not validated.
C10_RoundTripFailureIsUnavailable ==
    (so_entry = "parse" /\ so_repair = "callback" /\ so_repair_calls = 1
        /\ so_pc \in {"done", "raised"} /\ RoundTripFailed) =>
        /\ so_pc = "done"
        /\ so_result.error_stage = "repair_unavailable"
        /\ so_result.payload = NoPayload
        /\ so_validations = 1

----------------------------------------------------------------------------

ParseNext ==
    \/ ParseStructuredOutput
    \/ InvokeRepairLoop
    \/ RepairInvoke
    \/ RepairFinish


----------------------------------------------------------------------------
(* verdict_policy.py *)
(* A str is the sequence of its character codes; a confidence is a number  *)
(* of hundredths (0.85 is 85, and 50.0, a percentage, is 5000).            *)

s_pass == << 112, 97, 115, 115 >>                          \* "pass"
s_concerns == << 99, 111, 110, 99, 101, 114, 110, 115 >>   \* "concerns"
s_fail == << 102, 97, 105, 108 >>                          \* "fail"
s_Fail == << 70, 97, 105, 108 >>                           \* "Fail"
s_sp_pass == << 32, 112, 97, 115, 115 >>                   \* " pass"
s_Unknown == << 85, 110, 107, 110, 111, 119, 110 >>        \* "Unknown"
s_empty == << >>                                           \* ""
s_a == << 97 >>                                            \* "a"
s_b == << 98 >>                                            \* "b"
s_B == << 66 >>                                            \* "B"
s_m == << 109 >>                                           \* "m"
s_n == << 110 >>                                           \* "n"

None == << >>            \* an absent optional field
Some(x) == << x >>       \* a present optional field

VERDICT_SEVERITY(kind) ==
    CASE kind = "unknown" -> 0
      [] kind = "pass" -> 1
      [] kind = "concerns" -> 2
      [] kind = "fail" -> 3
      [] OTHER -> 0

CONCERNS_NEEDS_HUMAN_THRESHOLD == 85

ProviderVerdict(provider, model, verdict, confidence) ==
    [provider |-> provider, model |-> model, verdict |-> verdict,
     confidence |-> confidence]

\* str.lower() on ASCII text
Lower(s) == [i \in 1 .. Len(s) |-> IF s[i] \in 65 .. 90 THEN s[i] + 32 ELSE s[i]]

IsSpace(c) == c \in {9, 10, 11, 12, 13, 32}

RECURSIVE LStrip(_)
LStrip(s) == IF s # << >> /\ IsSpace(Head(s)) THEN LStrip(Tail(s)) ELSE s

RECURSIVE RStrip(_)
RStrip(s) ==
    IF s # << >> /\ IsSpace(s[Len(s)]) THEN RStrip(SubSeq(s, 1, Len(s) - 1)) ELSE s

\* str.strip()
Strip(s) == RStrip(LStrip(s))

\* str.startswith(prefix)
StartsWith(s, prefix) ==
    Len(s) >= Len(prefix) /\ SubSeq(s, 1, Len(prefix)) = prefix

\* comparison of two numbers: -1, 0 or 1
CmpInt(a, b) == IF a < b THEN -1 ELSE IF a > b THEN 1 ELSE 0

\* comparison of two str (by code point, a proper prefix is smaller)
RECURSIVE CmpStrFrom(_, _, _)
CmpStrFrom(a, b, i) ==
    IF i > Len(a) /\ i > Len(b) THEN 0
    ELSE IF i > Len(a) THEN -1
    ELSE IF i > Len(b) THEN 1
    ELSE IF a[i] # b[i] THEN CmpInt(a[i], b[i])
    ELSE CmpStrFrom(a, b, i + 1)

CmpStr(a, b) == CmpStrFrom(a, b, 1)

_classify_verdict(verdict) ==
    LET v == Lower(Strip(verdict))
    IN IF v = << >> THEN "unknown"
       ELSE IF StartsWith(v, s_pass) THEN "pass"
       ELSE IF StartsWith(v, s_concerns) THEN "concerns"
       ELSE IF StartsWith(v, s_fail) THEN "fail"
       ELSE "unknown"

\* values above 1 are percentages (the inputs above 100 hundredths are
\* multiples of 100, so the division is exact)
_normalize_confidence(value) ==
    IF value <= 0 THEN 0
    ELSE IF value <= 100 THEN value
    ELSE value \div 100

\* comparison of the keys (confidence, provider, model, verdict text) of two
\* entries, as Python compares the tuples
CmpTieBreak(x, y) ==
    LET c1 == CmpInt(_normalize_confidence(x.confidence),
                     _normalize_confidence(y.confidence))
        c2 == CmpStr(Lower(x.provider), Lower(y.provider))
        c3 == CmpStr(Lower(x.model), Lower(y.model))
        c4 == CmpStr(Lower(x.verdict), Lower(y.verdict))
    IN IF c1 # 0 THEN c1 ELSE IF c2 # 0 THEN c2 ELSE IF c3 # 0 THEN c3 ELSE c4

Severity(item) == VERDICT_SEVERITY(_classify_verdict(item.verdict))

CmpWorstConfidenceFirst(x, y) ==
    LET c1 == CmpInt(_normalize_confidence(x.confidence),
                     _normalize_confidence(y.confidence))
    IN IF c1 # 0 THEN c1
       ELSE IF CmpInt(Severity(x), Severity(y)) # 0
       THEN CmpInt(Severity(x), Severity(y))
       ELSE CmpTieBreak(x, y)

CmpWorstNoProvider(x, y) ==
    LET c0 == CmpInt(Severity(x), Severity(y))
        c1 == CmpInt(_normalize_confidence(x.confidence),
                     _normalize_confidence(y.confidence))
        c3 == CmpStr(Lower(x.model), Lower(y.model))
        c4 == CmpStr(Lower(x.verdict), Lower(y.verdict))
    IN IF c0 # 0 THEN c0 ELSE IF c1 # 0 THEN c1 ELSE IF c3 # 0 THEN c3 ELSE c4

\* comparison of the keys of policy worst: severity, then the tie-break key
CmpWorst(x, y) ==
    LET c0 == CmpInt(Severity(x), Severity(y))
    IN IF c0 # 0 THEN c0 ELSE CmpTieBreak(x, y)

\* max(verdicts, key=...) of policy worst: the first entry with the largest
\* key (a later entry replaces the best one only when its key is larger)
RECURSIVE MaxWorstFrom(_, _, _)
MaxWorstFrom(verdicts, i, best) ==
    IF i > Len(verdicts) THEN best
    ELSE MaxWorstFrom(verdicts, i + 1,
             IF CmpWorst(verdicts[i], best) > 0 THEN verdicts[i] ELSE best)

\* max(majority_bucket, key=...) of policy majority
RECURSIVE MaxTieBreakFrom(_, _, _)
MaxTieBreakFrom(bucket, i, best) ==
    IF i > Len(bucket) THEN best
    ELSE MaxTieBreakFrom(bucket, i + 1,
             IF CmpTieBreak(bucket[i], best) > 0 THEN bucket[i] ELSE best)

\* the keys of the dict buckets, in insertion order
RECURSIVE BucketKinds(_, _, _)
BucketKinds(verdicts, i, kinds) ==
    IF i > Len(verdicts) THEN kinds
    ELSE LET k == _classify_verdict(verdicts[i].verdict)
         IN BucketKinds(verdicts, i + 1,
                IF \E j \in 1 .. Len(kinds) : kinds[j] = k
                THEN kinds ELSE Append(kinds, k))

\* buckets[kind]
Bucket(verdicts, kind) ==
    LET OfKind(item) == _classify_verdict(item.verdict) = kind
    IN SelectSeq(verdicts, OfKind)

CmpBucketSmallest(verdicts, k1, k2) ==
    LET c == CmpInt(Len(Bucket(verdicts, k2)), Len(Bucket(verdicts, k1)))
    IN IF c # 0 THEN c ELSE CmpInt(VERDICT_SEVERITY(k1), VERDICT_SEVERITY(k2))

\* comparison of the keys (len(bucket), severity of the kind) of two buckets
CmpBucket(verdicts, k1, k2) ==
    LET c == CmpInt(Len(Bucket(verdicts, k1)), Len(Bucket(verdicts, k2)))
    IN IF c # 0 THEN c ELSE CmpInt(VERDICT_SEVERITY(k1), VERDICT_SEVERITY(k2))

\* max(buckets.items(), key=...)[0]
RECURSIVE MajorityKindFrom(_, _, _, _)
MajorityKindFrom(verdicts, kinds, i, best) ==
    IF i > Len(kinds) THEN best
    ELSE MajorityKindFrom(verdicts, kinds, i + 1,
             IF CmpBucket(verdicts, kinds[i], best) > 0 THEN kinds[i] ELSE best)

\* _select_deterministic for the policies worst and majority: None or
\* Some(entry)
_select_deterministic(verdicts, policy) ==
    IF verdicts = << >> THEN None
    ELSE IF policy = "worst"
    THEN Some(MaxWorstFrom(verdicts, 2, verdicts[1]))
    ELSE LET kinds == BucketKinds(verdicts, 1, << >>)
             majority_kind == MajorityKindFrom(verdicts, kinds, 2, kinds[1])
             majority_bucket == Bucket(verdicts, majority_kind)
         IN IF majority_bucket = << >> THEN None
            ELSE Some(MaxTieBreakFrom(majority_bucket, 2, majority_bucket[1]))

\* the loop of _split_pass_concerns over the concerns entries
RECURSIVE MaxConcernsFrom(_, _, _)
MaxConcernsFrom(verdicts, i, max_confidence) ==
    IF i > Len(verdicts) THEN max_confidence
    ELSE MaxConcernsFrom(verdicts, i + 1,
             IF _classify_verdict(verdicts[i].verdict) = "concerns"
             THEN Max(max_confidence, _normalize_confidence(verdicts[i].confidence))
             ELSE max_confidence)

SplitPassConcernsAlwaysConfidence(verdicts) ==
    LET has_pass == \E i \in 1 .. Len(verdicts) :
                        _classify_verdict(verdicts[i].verdict) = "pass"
        has_concerns == \E i \in 1 .. Len(verdicts) :
                        _classify_verdict(verdicts[i].verdict) = "concerns"
    IN [split |-> verdicts # << >> /\ has_pass /\ has_concerns,
        confidence |-> Some(MaxConcernsFrom(verdicts, 1, 0))]

\* _split_pass_concerns: (split, concerns confidence or None)
_split_pass_concerns(verdicts) ==
    LET has_pass == \E i \in 1 .. Len(verdicts) :
                        _classify_verdict(verdicts[i].verdict) = "pass"
        has_concerns == \E i \in 1 .. Len(verdicts) :
                        _classify_verdict(verdicts[i].verdict) = "concerns"
    IN IF verdicts = << >> \/ ~(has_pass /\ has_concerns)
       THEN [split |-> FALSE, confidence |-> None]
       ELSE [split |-> TRUE, confidence |-> Some(MaxConcernsFrom(verdicts, 1, 0))]

NeedsHumanAtThreshold(split_verdict, confidence_value) ==
    split_verdict /\ confidence_value <= CONCERNS_NEEDS_HUMAN_THRESHOLD

NeedsHumanWithoutSplit(split_verdict, confidence_value) ==
    confidence_value < CONCERNS_NEEDS_HUMAN_THRESHOLD

\* evaluate_verdict_policy, the escalation test
NeedsHuman(split_verdict, confidence_value) ==
    split_verdict /\ confidence_value < CONCERNS_NEEDS_HUMAN_THRESHOLD

ListNormalized(verdicts) ==
    [i \in DOMAIN verdicts |->
        ProviderVerdict(verdicts[i].provider, verdicts[i].model,
                        Strip(verdicts[i].verdict),
                        _normalize_confidence(verdicts[i].confidence))]

\* verdict_list = list(verdicts): the same entries in the same order
List(verdicts) == [i \in DOMAIN verdicts |-> verdicts[i]]

evaluate_verdict_policy(verdicts, policy) ==
    LET verdict_list == List(verdicts)
        selected == _select_deterministic(verdict_list, policy)
        split == _split_pass_concerns(verdict_list)
        confidence_value ==
            IF split.confidence = None \/ split.confidence = Some(0)
            THEN 0 ELSE split.confidence[1]
        needs_human == NeedsHuman(split.split, confidence_value)
        needs_human_reason ==
            IF needs_human
            THEN << "Provider verdicts split with low-confidence concerns",
                    confidence_value, CONCERNS_NEEDS_HUMAN_THRESHOLD >>
            ELSE << >>
        verdict_text ==
            IF selected = None \/ Strip(selected[1].verdict) = << >>
            THEN s_Unknown ELSE Strip(selected[1].verdict)
    IN [verdict |-> verdict_text,
        verdict_kind |-> IF selected = None THEN "unknown"
                         ELSE _classify_verdict(verdict_text),
        policy |-> policy,
        needs_human |-> needs_human,
        needs_human_reason |-> needs_human_reason,
        selected_provider |->
            IF selected = None THEN None ELSE Some(selected[1].provider),
        selected_model |->
            IF selected = None THEN None ELSE Some(selected[1].model),
        selected_confidence |->
            IF selected = None THEN None
            ELSE Some(_normalize_confidence(selected[1].confidence)),
        split_verdict |-> split.split,
        concerns_confidence |-> split.confidence,
        providers |-> verdict_list]

\* The provider verdicts tried: two providers, the kinds pass, concerns and
\* fail at two confidences, plus entries that differ from one of these in one
\* field only (empty verdict text, letter case of the provider, model, letter
\* case or leading blank of the verdict text, confidence at the threshold,
\* confidence written as a percentage).
VerdictUniverse ==
    { ProviderVerdict(p, s_m, v, c) :
        p \in {s_a, s_b}, v \in {s_pass, s_concerns, s_fail}, c \in {50, 90} }
    \cup { ProviderVerdict(s_a, s_m, s_empty, 50),
           ProviderVerdict(s_B, s_m, s_fail, 90),
           ProviderVerdict(s_a, s_n, s_fail, 90),
           ProviderVerdict(s_a, s_m, s_Fail, 90),
           ProviderVerdict(s_a, s_m, s_sp_pass, 90),
           ProviderVerdict(s_a, s_m, s_concerns, 85),
           ProviderVerdict(s_a, s_m, s_concerns, 5000) }

NoVerdictResult == [policy |-> "none"]

VpInit ==
    /\ vp_pc = "collect"
    /\ vp_list = << >>
    /\ vp_policy = "none"
    /\ vp_result = NoVerdictResult

\* extract_provider_verdicts (or any caller) appends one ProviderVerdict to
\* the list that will be evaluated
CollectVerdict ==
    /\ vp_pc = "collect"
    /\ Len(vp_list) < MaxVerdicts
    /\ \E item \in VerdictUniverse : vp_list' = Append(vp_list, item)
    /\ UNCHANGED << vp_pc, vp_policy, vp_result >>
    /\ UNCHANGED vp_frame

\* evaluate_verdict_policy(verdicts, policy=...)
EvaluateVerdictPolicy ==
    /\ vp_pc = "collect"
    /\ \E policy \in {"worst", "majority"} :
        /\ vp_policy' = policy
        /\ vp_result' = evaluate_verdict_policy(vp_list, policy)
    /\ vp_pc' = "done"
    /\ UNCHANGED vp_list
    /\ UNCHANGED vp_frame

----------------------------------------------------------------------------
(* Properties of verdict_policy.py, checked under SpecVerdict *)

Evaluated == vp_pc = "done"
Entries == 1 .. Len(vp_list)
KindAt(i) == _classify_verdict(vp_list[i].verdict)
ConfidenceAt(i) == _normalize_confidence(vp_list[i].confidence)
KindCount(kind) == Cardinality({i \in Entries : KindAt(i) = kind})
SelectedSeverity == VERDICT_SEVERITY(vp_result.verdict_kind)

\* entry i is the selected one, as far as the result tells
IsSelected(i) ==
    /\ vp_result.selected_provider = Some(vp_list[i].provider)
    /\ vp_result.selected_model = Some(vp_list[i].model)
    /\ vp_result.selected_confidence = Some(ConfidenceAt(i))
    /\ vp_result.verdict_kind = KindAt(i)

\* C2: needs_human is true exactly when the list has a pass entry and a
\* concerns entry and every concerns entry has a (normalized) confidence
\* below 0.85, and it has the same value under both policies; pass@0.9 with
\* concerns@0.5 under worst gives verdict concerns and needs_human, with
\* concerns@0.9 no needs_human.
C2_NeedsHumanIffLowConfidenceSplit ==
    Evaluated =>
        /\ vp_result.needs_human <=>
              /\ \E i \in Entries : KindAt(i) = "pass"
              /\ \E i \in Entries : KindAt(i) = "concerns"
              /\ \A i \in Entries : KindAt(i) = "concerns" => ConfidenceAt(i) < 85
        /\ \A policy \in {"worst", "majority"} :
              evaluate_verdict_policy(vp_list, policy).needs_human
                  = vp_result.needs_human
        /\ (vp_policy = "worst" /\ vp_list =
              << ProviderVerdict(s_a, s_m, s_pass, 90),
                 ProviderVerdict(s_b, s_m, s_concerns, 50) >>) =>
              vp_result.verdict = s_concerns /\ vp_result.needs_human
        /\ (vp_policy = "worst" /\ vp_list =
              << ProviderVerdict(s_a, s_m, s_pass, 90),
                 ProviderVerdict(s_b, s_m, s_concerns, 90) >>) =>
              vp_result.verdict = s_concerns /\ ~vp_result.needs_human

\* C2 witness: a pass entry beside concerns entries whose highest confidence
\* is exactly 0.85, evaluated without escalation.
C2_Witness ==
    /\ Evaluated /\ ~vp_result.needs_human
    /\ \E i \in Entries : KindAt(i) = "pass"
    /\ \E i \in Entries : KindAt(i) = "concerns" /\ ConfidenceAt(i) = 85
    /\ \A i \in Entries : KindAt(i) = "concerns" => ConfidenceAt(i) <= 85

\* C3: under policy worst with a non-empty list the selected entry has the
\* highest severity of the list, and the highest (normalized) confidence
\* among the entries of that severity.
C3_WorstSelectsHighestSeverity ==
    (Evaluated /\ vp_policy = "worst" /\ vp_list # << >>) =>
        /\ \E i \in Entries : IsSelected(i)
        /\ \A i \in Entries : Severity(vp_list[i]) <= SelectedSeverity
        /\ \A i \in Entries :
              Severity(vp_list[i]) = SelectedSeverity =>
                  Some(ConfidenceAt(i)) = vp_result.selected_confidence
                  \/ ConfidenceAt(i) < vp_result.selected_confidence[1]

\* C3 witness: two entries of the highest severity with different
\* confidences, and an entry of lower severity more confident than both.
C3_Witness ==
    /\ Evaluated /\ vp_policy = "worst"
    /\ \E i, j, k \in Entries :
          /\ Severity(vp_list[i]) = SelectedSeverity
          /\ Severity(vp_list[j]) = SelectedSeverity
          /\ ConfidenceAt(i) < ConfidenceAt(j)
          /\ Severity(vp_list[k]) < SelectedSeverity
          /\ ConfidenceAt(k) > ConfidenceAt(j)

\* entry i ties with the selected entry on severity and confidence
TiedWithSelected(i) ==
    /\ Severity(vp_list[i]) = SelectedSeverity
    /\ Some(ConfidenceAt(i)) = vp_result.selected_confidence

\* C4 as stated: under policy worst, of the entries tied on severity and
\* confidence the one with the lexicographically smaller provider name is
\* selected.
C4_SmallerProviderWins ==
    (Evaluated /\ vp_policy = "worst" /\ vp_list # << >>) =>
        \A i \in Entries :
            TiedWithSelected(i) =>
                CmpStr(vp_result.selected_provider[1], vp_list[i].provider) <= 0

\* C4 amended: under policy worst, of the entries tied on (highest) severity
\* and confidence the one whose lower-cased provider name is
\* lexicographically larger is selected, in either input order.
C4_LargerProviderWins ==
    (Evaluated /\ vp_policy = "worst" /\ vp_list # << >>) =>
        \A i \in Entries :
            TiedWithSelected(i) =>
                CmpStr(Lower(vp_list[i].provider),
                       Lower(vp_result.selected_provider[1])) <= 0

\* C4 witness: fail@0.9 of provider "a" followed by fail@0.9 of provider
\* "b"; "b" is selected.
C4_Witness ==
    /\ Evaluated /\ vp_policy = "worst"
    /\ vp_list = << ProviderVerdict(s_a, s_m, s_fail, 90),
                    ProviderVerdict(s_b, s_m, s_fail, 90) >>
    /\ vp_result.selected_provider = Some(s_b)

\* the list with the entries i and j exchanged
Swapped(i, j) == [vp_list EXCEPT ![i] = vp_list[j], ![j] = vp_list[i]]

\* C5: the result does not depend on the order of the list: exchanging two
\* entries leaves verdict, verdict_kind, selected_provider, selected_model,
\* selected_confidence, split_verdict and needs_human as they are.
C5_OrderIndependent ==
    Evaluated =>
        \A i, j \in Entries :
            LET r == evaluate_verdict_policy(Swapped(i, j), vp_policy)
            IN /\ r.verdict = vp_result.verdict
               /\ r.verdict_kind = vp_result.verdict_kind
               /\ r.selected_provider = vp_result.selected_provider
               /\ r.selected_model = vp_result.selected_model
               /\ r.selected_confidence = vp_result.selected_confidence
               /\ r.split_verdict = vp_result.split_verdict
               /\ r.needs_human = vp_result.needs_human

\* C6: under policy majority with a non-empty list the selected entry is of
\* the kind with the most entries, the kind of higher severity winning a tie
\* on the count; it has the highest confidence of its bucket, and is the
\* entry policy worst selects from that bucket.
C6_MajoritySelectsLargestBucket ==
    (Evaluated /\ vp_policy = "majority" /\ vp_list # << >>) =>
        LET kind == vp_result.verdict_kind
            worst == evaluate_verdict_policy(Bucket(vp_list, kind), "worst")
        IN /\ \E i \in Entries : IsSelected(i)
           /\ \A other \in {"unknown", "pass", "concerns", "fail"} \ {kind} :
                 \/ KindCount(other) < KindCount(kind)
                 \/ /\ KindCount(other) = KindCount(kind)
                    /\ VERDICT_SEVERITY(other) < VERDICT_SEVERITY(kind)
           /\ \A i \in Entries :
                 KindAt(i) = kind =>
                     ConfidenceAt(i) <= vp_result.selected_confidence[1]
           /\ worst.selected_provider = vp_result.selected_provider
           /\ worst.selected_model = vp_result.selected_model
           /\ worst.selected_confidence = vp_result.selected_confidence
           /\ worst.verdict = vp_result.verdict

\* C6 witness: the largest bucket is not the most severe kind of the list,
\* and holds entries of different confidence.
C6_Witness ==
    /\ Evaluated /\ vp_policy = "majority"
    /\ \E i \in Entries : Severity(vp_list[i]) > SelectedSeverity
    /\ \E i, j \in Entries :
          /\ KindAt(i) = vp_result.verdict_kind
          /\ KindAt(j) = vp_result.verdict_kind
          /\ ConfidenceAt(i) < ConfidenceAt(j)

----------------------------------------------------------------------------

\* C25: for an empty input list and either policy the result has verdict
\* "Unknown", kind unknown, no selected provider, model or confidence,
\* split_verdict false, needs_human false with an empty reason, and an
\* empty providers list.
C25_EmptyInputIsUnknown ==
    (Evaluated /\ vp_list = << >>) =>
        /\ vp_result.verdict = s_Unknown
        /\ vp_result.verdict_kind = "unknown"
        /\ vp_result.selected_provider = None
        /\ vp_result.selected_model = None
        /\ vp_result.selected_confidence = None
        /\ vp_result.split_verdict = FALSE
        /\ vp_result.needs_human = FALSE
        /\ vp_result.needs_human_reason = << >>
        /\ vp_result.providers = << >>

C25_Witness ==
    /\ Evaluated /\ vp_list = << >>
    /\ vp_result.policy = "majority"
    /\ vp_result.verdict = s_Unknown

\* C26: the providers field of the result is the input list: same length,
\* same order, and provider, model, verdict text and confidence of every
\* entry as given, under both policies.
C26_ProvidersUnmodified ==
    Evaluated =>
        /\ Len(vp_result.providers) = Len(vp_list)
        /\ \A i \in Entries :
              /\ vp_result.providers[i].provider = vp_list[i].provider
              /\ vp_result.providers[i].model = vp_list[i].model
              /\ vp_result.providers[i].verdict = vp_list[i].verdict
              /\ vp_result.providers[i].confidence = vp_list[i].confidence

C26_Witness ==
    /\ Evaluated /\ Len(vp_list) = 3
    /\ vp_list[1] = ProviderVerdict(s_a, s_m, s_concerns, 5000)
    /\ vp_list[2] = ProviderVerdict(s_a, s_m, s_sp_pass, 90)
    /\ vp_list[3] = ProviderVerdict(s_B, s_m, s_fail, 90)
    /\ vp_result.selected_provider = Some(s_B)
    /\ vp_result.providers = vp_list

\* C28: in every result needs_human implies split_verdict, the reason is
\* non-empty exactly when needs_human is true, and concerns_confidence is
\* present exactly when split_verdict is true.
C28_EscalationFieldsConsistent ==
    Evaluated =>
        /\ vp_result.needs_human => vp_result.split_verdict
        /\ (vp_result.needs_human_reason # << >>) <=> vp_result.needs_human
        /\ (vp_result.concerns_confidence # None) <=> vp_result.split_verdict

C28_Witness ==
    /\ Evaluated
    /\ vp_result.needs_human /\ vp_result.split_verdict
    /\ vp_result.needs_human_reason # << >>
    /\ vp_result.concerns_confidence = Some(50)

VerdictNext ==
    \/ CollectVerdict
    \/ EvaluateVerdictPolicy

----------------------------------------------------------------------------
(* llm_provider.py, GitHubModelsProvider._validate_confidence *)
(* Confidences are in hundredths (0.3 is 30); raw_confidence may lie       *)
(* outside [0, 1].                                                         *)

s_reason_denies == << 70, 111, 117, 110, 100, 32, 78, 111, 32, 69, 118, 105, 100, 101, 110, 99, 101, 46 >>   \* "Found No Evidence."
s_reason_plain == << 116, 101, 115, 116, 115, 32, 112, 97, 115, 115 >>    \* "tests pass"

\* no_evidence_phrases
no_evidence_phrases ==
    { << 110, 111, 32, 101, 118, 105, 100, 101, 110, 99, 101 >>,    \* "no evidence"
      << 110, 111, 32, 119, 111, 114, 107 >>,    \* "no work"
      << 110, 111, 116, 104, 105, 110, 103, 32, 100, 111, 110, 101 >>,    \* "nothing done"
      << 110, 111, 32, 115, 112, 101, 99, 105, 102, 105, 99 >> }   \* "no specific"

\* phrase in text
Contains(text, phrase) ==
    \E i \in 1 .. (Len(text) - Len(phrase) + 1) :
        SubSeq(text, i, i + Len(phrase) - 1) = phrase

\* SessionQualityContext, the fields _validate_confidence reads for its
\* decisions (file_change_count and successful_command_count only appear in
\* the text of a warning)
SessionQualityContext(has_work_evidence, effort, data_quality, text_length) ==
    [has_work_evidence |-> has_work_evidence,
     estimated_effort_score |-> effort,
     data_quality |-> data_quality,
     analysis_text_length |-> text_length]

QualityCapDefaultHigh(data_quality) ==
    CASE data_quality = "high" -> 100
      [] data_quality = "medium" -> 80
      [] data_quality = "low" -> 60
      [] data_quality = "minimal" -> 40
      [] OTHER -> 100

\* quality_caps.get(quality_context.data_quality, 0.5)
QualityCap(data_quality) ==
    CASE data_quality = "high" -> 100
      [] data_quality = "medium" -> 80
      [] data_quality = "low" -> 60
      [] data_quality = "minimal" -> 40
      [] OTHER -> 50

\* a running (confidence, warnings) pair
Running(confidence, warnings) ==
    [confidence |-> confidence, warnings |-> warnings]

\* the conditions of the BS detection rules 1 to 4
Rule1Holds(a, q) ==
    a.raw > 70 /\ a.completed = 0 /\ a.in_progress = 0 /\ q.has_work_evidence
Rule2Holds(a, q) == q.analysis_text_length < 200
Rule3Holds(a, q) ==
    q.estimated_effort_score > 30 /\ a.completed = 0 /\ a.in_progress = 0
Rule4Holds(a, q) ==
    /\ \E phrase \in no_evidence_phrases : Contains(Lower(a.reasoning), phrase)
    /\ q.has_work_evidence

Rule1Raises(a, q, r) ==
    IF Rule1Holds(a, q)
    THEN Running(Max(r.confidence, 30), Append(r.warnings, "high_confidence_no_tasks"))
    ELSE r

\* BS Detection Rule 1: high confidence, no tasks, evidence of work
Rule1(a, q, r) ==
    IF Rule1Holds(a, q)
    THEN Running(Min(r.confidence, 30), Append(r.warnings, "high_confidence_no_tasks"))
    ELSE r

Rule2Assigns(a, q, r) ==
    IF Rule2Holds(a, q)
    THEN Running(40, Append(r.warnings, "short_analysis_text"))
    ELSE r

\* BS Detection Rule 2: very short analysis text
Rule2(a, q, r) ==
    IF Rule2Holds(a, q)
    THEN Running(Min(r.confidence, 40), Append(r.warnings, "short_analysis_text"))
    ELSE r

Rule3Silent(a, q, r) ==
    IF Rule3Holds(a, q)
    THEN Running(Min(r.confidence, 40), r.warnings)
    ELSE r

\* BS Detection Rule 3: no tasks but a high effort score
Rule3(a, q, r) ==
    IF Rule3Holds(a, q)
    THEN Running(Min(r.confidence, 40), Append(r.warnings, "effort_without_tasks"))
    ELSE r

\* BS Detection Rule 4: the reasoning denies evidence that exists
Rule4(a, q, r) ==
    IF Rule4Holds(a, q)
    THEN Running(Min(r.confidence, 35), Append(r.warnings, "claims_no_evidence"))
    ELSE r

Rule5Assigns(a, q, r) ==
    Running(QualityCap(q.data_quality), Append(r.warnings, "data_quality_cap"))

\* BS Detection Rule 5: the ceiling of the data quality tier
Rule5(a, q, r) ==
    IF r.confidence > QualityCap(q.data_quality)
    THEN Running(QualityCap(q.data_quality), Append(r.warnings, "data_quality_cap"))
    ELSE r

ApplyRule(k, a, q, r) ==
    CASE k = 1 -> Rule1(a, q, r)
      [] k = 2 -> Rule2(a, q, r)
      [] k = 3 -> Rule3(a, q, r)
      [] k = 4 -> Rule4(a, q, r)
      [] OTHER -> Rule5(a, q, r)

\* the rules order[i], order[i+1], ... applied one after the other
RECURSIVE ApplyRules(_, _, _, _, _)
ApplyRules(order, i, a, q, r) ==
    IF i > Len(order) THEN r
    ELSE ApplyRules(order, i + 1, a, q, ApplyRule(order[i], a, q, r))

\* the order in which _validate_confidence applies its rules
RuleOrder == << 1, 2, 3, 4, 5 >>

\* confidence = max(0.0, min(1.0, confidence))
ClampConfidence(raw) == Max(0, Min(100, raw))

\* _validate_confidence(raw_confidence, completed_count, in_progress_count,
\* quality_context, reasoning) with the rules applied in the given order
ValidateInOrder(a, order) ==
    IF a.quality_context = None
    THEN Running(ClampConfidence(a.raw), << >>)
    ELSE ApplyRules(order, 1, a, a.quality_context[1],
                    Running(ClampConfidence(a.raw), << >>))

_validate_confidence(a) == ValidateInOrder(a, RuleOrder)

RawConfidences == {-50, 0, 20, 35, 45, 70, 71, 90, 100, 150}

QualityContexts ==
    { SessionQualityContext(e, s, d, n) :
        e \in BOOLEAN, s \in {30, 31},
        d \in {"high", "medium", "low", "minimal", "unknown"},
        n \in {199, 200} }

CalInit ==
    /\ cal_pc = "idle"
    /\ cal_args = [raw |-> 0, completed |-> 0, in_progress |-> 0,
                   quality_context |-> None, reasoning |-> << >>]
    /\ cal_result = Running(0, << >>)

\* one call of _validate_confidence
ValidateConfidence ==
    /\ cal_pc = "idle"
    /\ \E raw \in RawConfidences, completed \in 0 .. MaxTaskCount,
          in_progress \in 0 .. MaxTaskCount,
          quality_context \in {None} \cup { Some(q) : q \in QualityContexts },
          reasoning \in {s_empty, s_reason_denies, s_reason_plain} :
        LET a == [raw |-> raw, completed |-> completed,
                  in_progress |-> in_progress,
                  quality_context |-> quality_context, reasoning |-> reasoning]
        IN /\ cal_args' = a
           /\ cal_result' = _validate_confidence(a)
    /\ cal_pc' = "done"
    /\ UNCHANGED cal_frame

Calibrated == cal_pc = "done"
WithContext == cal_args.quality_context # None
Context == cal_args.quality_context[1]
Adjusted == cal_result.confidence
Warnings == cal_result.warnings
WarningSet(w) == { w[i] : i \in DOMAIN w }
SetMin(S) == CHOOSE x \in S : \A y \in S : x <= y

\* every order in which the five rules can be applied
RuleOrders ==
    { << a, b, c, d, e >> : a \in 1 .. 5, b \in 1 .. 5, c \in 1 .. 5,
                            d \in 1 .. 5, e \in 1 .. 5 }
RulePermutations == { o \in RuleOrders : WarningSet(o) = 1 .. 5 }

\* the caps of the rules whose conditions hold, with the clamped raw value
ApplicableCaps ==
    { ClampConfidence(cal_args.raw), QualityCap(Context.data_quality) }
    \cup (IF Rule1Holds(cal_args, Context) THEN {30} ELSE {})
    \cup (IF Rule2Holds(cal_args, Context) THEN {40} ELSE {})
    \cup (IF Rule3Holds(cal_args, Context) THEN {40} ELSE {})
    \cup (IF Rule4Holds(cal_args, Context) THEN {35} ELSE {})

\* the running pair after the first k rules of the code's order
AfterRules(k) ==
    ApplyRules(SubSeq(RuleOrder, 1, k), 1, cal_args, Context,
               Running(ClampConfidence(cal_args.raw), << >>))

\* C11 as stated: for every raw_confidence, also outside [0, 1], the
\* adjusted confidence is at most raw_confidence.
C11_AdjustedAtMostRaw ==
    Calibrated => Adjusted <= cal_args.raw

\* C11 amended: the adjusted confidence lies in [0, 1] and is at most
\* max(0, raw_confidence); it is at most raw_confidence whenever
\* raw_confidence is not negative.
C11_AdjustedAtMostNonNegativeRaw ==
    Calibrated =>
        /\ 0 <= Adjusted /\ Adjusted <= 100
        /\ Adjusted <= Max(0, cal_args.raw)
        /\ (cal_args.raw >= 0 => Adjusted <= cal_args.raw)

C11_Witness ==
    /\ Calibrated /\ WithContext
    /\ cal_args.raw < 0 /\ Adjusted = 0 /\ Adjusted > cal_args.raw

\* C12 as stated: with a quality context the adjusted confidence is the
\* minimum of the clamped raw value and the caps of the rules whose
\* conditions hold, every order of the rules gives that value, and only the
\* order of the warnings depends on the order of the rules.
C12_OnlyWarningOrderDepends ==
    (Calibrated /\ WithContext) =>
        /\ Adjusted = SetMin(ApplicableCaps)
        /\ \A o \in RulePermutations :
              /\ ValidateInOrder(cal_args, o).confidence = Adjusted
              /\ WarningSet(ValidateInOrder(cal_args, o).warnings)
                     = WarningSet(Warnings)

\* C12 amended: with a quality context the adjusted confidence is the
\* minimum of the clamped raw value and the caps of the rules whose
\* conditions hold and every order of the rules gives that value; the
\* warnings of rules 1 to 4 are the same in every order, while the warning
\* of the tier ceiling is present only in the orders where the running
\* value exceeds the ceiling when that rule is reached.
C12_MinimumOfCapsInAnyOrder ==
    (Calibrated /\ WithContext) =>
        /\ Adjusted = SetMin(ApplicableCaps)
        /\ \A o \in RulePermutations :
              /\ ValidateInOrder(cal_args, o).confidence = Adjusted
              /\ WarningSet(ValidateInOrder(cal_args, o).warnings)
                     \ {"data_quality_cap"}
                   = WarningSet(Warnings) \ {"data_quality_cap"}

C12_Witness ==
    /\ Calibrated /\ WithContext
    /\ Rule2Holds(cal_args, Context) /\ Rule4Holds(cal_args, Context)
    /\ Adjusted = 35 /\ Adjusted < ClampConfidence(cal_args.raw)
    /\ \E o \in RulePermutations :
          /\ ValidateInOrder(cal_args, o).confidence = Adjusted
          /\ ValidateInOrder(cal_args, o).warnings # Warnings

\* C13 as stated: every rule that reduces the running confidence, the clamp
\* included, appends a warning, so with a quality context an adjusted
\* confidence below raw_confidence comes with at least one warning.
C13_ReducedImpliesWarning ==
    (Calibrated /\ WithContext /\ Adjusted < cal_args.raw) =>
        Warnings # << >>

\* C13 amended: each of the five rules after the clamp that reduces the
\* running confidence appends exactly one warning (the clamp appends none),
\* so with a quality context an adjusted confidence below the clamped
\* raw_confidence comes with at least one warning.
C13_ReducingRuleWarns ==
    (Calibrated /\ WithContext) =>
        /\ AfterRules(5) = cal_result
        /\ \A k \in 1 .. 5 :
              AfterRules(k).confidence < AfterRules(k - 1).confidence =>
                  Len(AfterRules(k).warnings)
                      = Len(AfterRules(k - 1).warnings) + 1
        /\ (Adjusted < ClampConfidence(cal_args.raw) => Warnings # << >>)

C13_Witness ==
    /\ Calibrated /\ WithContext
    /\ Adjusted < ClampConfidence(cal_args.raw)
    /\ AfterRules(2).confidence < AfterRules(1).confidence
    /\ AfterRules(4).confidence < AfterRules(3).confidence
    /\ Len(Warnings) >= 2

\* C14: a raw confidence above 0.7 with no completed and no in-progress task
\* while the session shows work evidence is adjusted to at most 0.3.
C14_OverconfidentNoTasksCapped ==
    (/\ Calibrated /\ WithContext
     /\ cal_args.raw > 70 /\ cal_args.completed = 0
     /\ cal_args.in_progress = 0 /\ Context.has_work_evidence)
        => Adjusted <= 30

C14_Witness ==
    /\ Calibrated /\ WithContext
    /\ cal_args.raw > 70 /\ cal_args.completed = 0
    /\ cal_args.in_progress = 0 /\ Context.has_work_evidence
    /\ Adjusted = 30
    /\ "high_confidence_no_tasks" \in WarningSet(Warnings)

\* C15: with a quality context the adjusted confidence never exceeds the
\* ceiling of the data quality tier: 1.0 for high, 0.8 for medium, 0.6 for
\* low, 0.4 for minimal and 0.5 for any other tier.
C15_TierCeiling ==
    (Calibrated /\ WithContext) =>
        Adjusted <= (CASE Context.data_quality = "high" -> 100
                       [] Context.data_quality = "medium" -> 80
                       [] Context.data_quality = "low" -> 60
                       [] Context.data_quality = "minimal" -> 40
                       [] OTHER -> 50)

C15_Witness ==
    /\ Calibrated /\ WithContext
    /\ Context.data_quality = "unknown"
    /\ cal_args.raw > 50 /\ Adjusted = 50
    /\ Warnings = << "data_quality_cap" >>

CalNext == ValidateConfidence

----------------------------------------------------------------------------
(* langchain_client.py, build_chat_client and build_chat_clients *)
(* Provider selectors and model names are texts (sequences of character    *)
(* codes, the empty text standing for None as well); a normalized provider *)
(* is one of the three PROVIDER_ strings.                                  *)

PROVIDER_OPENAI == "openai"
PROVIDER_ANTHROPIC == "anthropic"
PROVIDER_GITHUB == "github-models"
Providers == { PROVIDER_OPENAI, PROVIDER_ANTHROPIC, PROVIDER_GITHUB }

t_github == << 103, 105, 116, 104, 117, 98 >>               \* "github"
t_github_models == << 103, 105, 116, 104, 117, 98, 95, 109, 111, 100, 101, 108, 115 >>   \* "github_models"
t_github_dash_models == << 103, 105, 116, 104, 117, 98, 45, 109, 111, 100, 101, 108, 115 >>   \* "github-models"
t_anthropic == << 97, 110, 116, 104, 114, 111, 112, 105, 99 >>   \* "anthropic"
t_claude == << 99, 108, 97, 117, 100, 101 >>                \* "claude"
t_openai == << 111, 112, 101, 110, 97, 105 >>                \* "openai"
t_OpenAI_padded == << 32, 79, 112, 101, 110, 65, 73, 32 >>   \* " OpenAI "
t_GitHub == << 71, 105, 116, 72, 117, 98 >>               \* "GitHub"
t_bogus == << 98, 111, 103, 117, 115 >>                   \* "bogus"

DEFAULT_MODEL == << 103, 112, 116, 45, 52, 111 >>      \* "gpt-4o"
m_gpt_5_2 == << 103, 112, 116, 45, 53, 46, 50 >>      \* "gpt-5.2"
m_claude_sonnet == << 99, 108, 97, 117, 100, 101, 45, 115, 111, 110, 110, 101, 116, 45, 52, 45, 53, 45, 50, 48, 50, 53, 48, 57, 50, 57 >>   \* "claude-sonnet-4-5-20250929"
m_gpt_4_1 == << 103, 112, 116, 45, 52, 46, 49 >>  \* "gpt-4.1"
m_x == << 120 >>   \* "x", a per-call model
m_y == << 121 >>   \* "y", a second per-call model
m_g == << 103 >>   \* "g", a LANGCHAIN_MODEL value
m_s == << 115 >>   \* "s", a LANGCHAIN_SLOT<n>_MODEL value
m_s_padded == << 32, 115 >>   \* " s"

\* a or b, on texts
Or(a, b) == IF a # << >> THEN a ELSE b

ClientInfo(provider, model) == [provider |-> provider, model |-> model]

SlotDefinition(provider, model) == [provider |-> provider, model |-> model]

_normalize_provider(value) ==
    IF value = << >> THEN NoText
    ELSE LET normalized == Lower(Strip(value))
         IN IF normalized \in {t_github, t_github_models, t_github_dash_models}
            THEN PROVIDER_GITHUB
            ELSE IF normalized \in {t_anthropic, t_claude}
            THEN PROVIDER_ANTHROPIC
            ELSE IF normalized \in {t_openai}
            THEN PROVIDER_OPENAI
            ELSE NoText

\* << selected_provider, provider_explicit >>
_resolve_provider(env, provider, force_openai) ==
    IF force_openai THEN << PROVIDER_OPENAI, TRUE >>
    ELSE IF provider # << >> THEN << _normalize_provider(provider), TRUE >>
    ELSE << _normalize_provider(env.LANGCHAIN_PROVIDER), FALSE >>

_resolve_model(env, model) == Or(model, Or(env.LANGCHAIN_MODEL, DEFAULT_MODEL))

_default_slots ==
    << SlotDefinition(PROVIDER_OPENAI, m_gpt_5_2),
       SlotDefinition(PROVIDER_ANTHROPIC, m_claude_sonnet),
       SlotDefinition(PROVIDER_GITHUB, DEFAULT_MODEL) >>

\* the slot lists _load_slot_config can return: the default list, and lists
\* read from a configuration file (every entry has a recognized provider
\* and a model, the others are skipped while loading)
SlotConfigs ==
    { _default_slots,
      << SlotDefinition(PROVIDER_GITHUB, DEFAULT_MODEL),
         SlotDefinition(PROVIDER_OPENAI, m_gpt_5_2),
         SlotDefinition(PROVIDER_ANTHROPIC, m_claude_sonnet) >>,
      << SlotDefinition(PROVIDER_ANTHROPIC, m_claude_sonnet),
         SlotDefinition(PROVIDER_GITHUB, DEFAULT_MODEL),
         SlotDefinition(PROVIDER_OPENAI, m_gpt_5_2) >>,
      << SlotDefinition(PROVIDER_OPENAI, m_gpt_5_2),
         SlotDefinition(PROVIDER_OPENAI, m_gpt_4_1),
         SlotDefinition(PROVIDER_GITHUB, DEFAULT_MODEL) >>,
      << SlotDefinition(PROVIDER_GITHUB, DEFAULT_MODEL),
         SlotDefinition(PROVIDER_ANTHROPIC, m_claude_sonnet) >>,
      << SlotDefinition(PROVIDER_ANTHROPIC, m_claude_sonnet) >> }

\* LANGCHAIN_SLOT<idx>_PROVIDER and LANGCHAIN_SLOT<idx>_MODEL, per slot index
SlotEnv(provider, model) == [provider |-> provider, model |-> model]
NoSlotEnv == [idx \in 1 .. 3 |-> SlotEnv(<< >>, << >>)]
SlotEnvs ==
    { NoSlotEnv,
      [NoSlotEnv EXCEPT ![1] = SlotEnv(<< >>, m_s_padded)],
      [NoSlotEnv EXCEPT ![2] = SlotEnv(<< >>, m_s)],
      [NoSlotEnv EXCEPT ![2] = SlotEnv(t_OpenAI_padded, << >>)],
      [NoSlotEnv EXCEPT ![1] = SlotEnv(t_claude, m_s)] }

_apply_slot_env_overrides(env, slots) ==
    [idx \in DOMAIN slots |->
        LET provider_override == _normalize_provider(env.slot_env[idx].provider)
            model_override ==
                IF idx = 1
                THEN Or(env.slot_env[idx].model, env.LANGCHAIN_MODEL)
                ELSE env.slot_env[idx].model
        IN SlotDefinition(
               IF provider_override # NoText THEN provider_override
               ELSE slots[idx].provider,
               Strip(Or(model_override, slots[idx].model)))]

_resolve_slots(env) == _apply_slot_env_overrides(env, env.slot_config)

\* the provider's token is set (and, for anthropic, ChatAnthropic imported)
HasClientFor(env, provider) ==
    \/ provider = PROVIDER_OPENAI /\ env.OPENAI_API_KEY
    \/ provider = PROVIDER_ANTHROPIC /\ env.CLAUDE_API_STRANSKE
           /\ env.ChatAnthropic
    \/ provider = PROVIDER_GITHUB /\ env.GITHUB_TOKEN

\* _build_openai_client / _build_anthropic_client / _build_github_client
\* return a client (they may also raise)
Constructs(env, provider) == provider \notin env.constructor_raises

NoTokenAtAll(env) ==
    ~env.GITHUB_TOKEN /\ ~env.OPENAI_API_KEY /\ ~env.CLAUDE_API_STRANSKE

AutoSelectFirstSlotOnly(env, slots, i, model_override, used_override) ==
    IF i > Len(slots) THEN << >>
    ELSE LET slot == slots[i]
             slot_model == IF model_override # << >> /\ ~used_override
                           THEN model_override ELSE slot.model
         IN IF HasClientFor(env, slot.provider) /\ Constructs(env, slot.provider)
            THEN << ClientInfo(slot.provider, slot_model) >>
            ELSE << >>

\* the auto-select loop of build_chat_client over slots[i], slots[i+1], ...
RECURSIVE AutoSelect(_, _, _, _, _)
AutoSelect(env, slots, i, model_override, used_override) ==
    IF i > Len(slots) THEN << >>
    ELSE LET slot == slots[i]
             slot_model == IF model_override # << >> /\ ~used_override
                           THEN model_override ELSE slot.model
         IN IF HasClientFor(env, slot.provider) /\ Constructs(env, slot.provider)
            THEN << ClientInfo(slot.provider, slot_model) >>
            ELSE AutoSelect(env, slots, i + 1, model_override, used_override)

SelectedClientFallsThrough(env, selected_provider, selected_model) ==
    IF HasClientFor(env, selected_provider) /\ Constructs(env, selected_provider)
    THEN << ClientInfo(selected_provider, selected_model) >>
    ELSE AutoSelect(env, _resolve_slots(env), 1, selected_model, FALSE)

\* the three "if selected_provider == ..." branches of build_chat_client
SelectedClient(env, selected_provider, selected_model) ==
    IF HasClientFor(env, selected_provider) /\ Constructs(env, selected_provider)
    THEN << ClientInfo(selected_provider, selected_model) >>
    ELSE << >>

\* build_chat_client(model=, provider=, force_openai=): << >> is None
build_chat_client(env, model, provider, force_openai) ==
    IF ~env.ChatOpenAI THEN << >>
    ELSE IF NoTokenAtAll(env) THEN << >>
    ELSE LET selected_model == _resolve_model(env, model)
             resolved == _resolve_provider(env, provider, force_openai)
             selected_provider == resolved[1]
             provider_explicit == resolved[2]
         IN IF provider_explicit /\ selected_provider = NoText THEN << >>
            ELSE IF selected_provider \in Providers
            THEN SelectedClient(env, selected_provider, selected_model)
            ELSE AutoSelect(env, _resolve_slots(env), 1,
                            Or(model, env.LANGCHAIN_MODEL), FALSE)

\* the first two slots that have a client (candidate_slots)
RECURSIVE CandidateSlots(_, _, _, _)
CandidateSlots(env, slots, i, found) ==
    IF i > Len(slots) \/ Len(found) >= 2 THEN found
    ELSE CandidateSlots(env, slots, i + 1,
                        IF HasClientFor(env, slots[i].provider)
                        THEN Append(found, slots[i]) ELSE found)

\* clients.append(ClientInfo(...)) under contextlib.suppress(Exception)
AppendClient(env, clients, provider, model) ==
    IF Constructs(env, provider)
    THEN Append(clients, ClientInfo(provider, model))
    ELSE clients

\* the loop of build_chat_clients over candidate_slots
SlotClients(env, candidate_slots, model_overrides) ==
    LET first == IF Len(candidate_slots) >= 1
                 THEN AppendClient(env, << >>, candidate_slots[1].provider,
                          Or(model_overrides[1], candidate_slots[1].model))
                 ELSE << >>
    IN IF Len(candidate_slots) >= 2
       THEN AppendClient(env, first, candidate_slots[2].provider,
                Or(model_overrides[2], candidate_slots[2].model))
       ELSE first

\* the "if selected_provider:" branch of build_chat_clients
SelectedClients(env, selected_provider, first_model, second_model) ==
    IF HasClientFor(env, selected_provider)
    THEN LET first == AppendClient(env, << >>, selected_provider, first_model)
         IN IF second_model # first_model
            THEN AppendClient(env, first, selected_provider, second_model)
            ELSE first
    ELSE << >>

\* build_chat_clients(model1=, model2=, provider=)
build_chat_clients(env, model1, model2, provider) ==
    IF ~env.ChatOpenAI THEN << >>
    ELSE IF NoTokenAtAll(env) THEN << >>
    ELSE LET first_model == _resolve_model(env, model1)
             second_model ==
                 Or(model2, Or(model1, Or(env.LANGCHAIN_MODEL, DEFAULT_MODEL)))
             resolved == _resolve_provider(env, provider, FALSE)
             selected_provider == resolved[1]
             provider_explicit == resolved[2]
         IN IF provider_explicit /\ selected_provider = NoText THEN << >>
            ELSE IF selected_provider # NoText
            THEN SelectedClients(env, selected_provider, first_model,
                                 second_model)
            ELSE SlotClients(env,
                     CandidateSlots(env, _resolve_slots(env), 1, << >>),
                     << Or(model1, env.LANGCHAIN_MODEL), Or(model2, model1) >>)

\* the environment of a call
Environment(okey, ckey, gtoken, lib_o, lib_a, raises, eprov, emodel, sc, se) ==
    [OPENAI_API_KEY |-> okey, CLAUDE_API_STRANSKE |-> ckey,
     GITHUB_TOKEN |-> gtoken, ChatOpenAI |-> lib_o,
     ChatAnthropic |-> lib_a, constructor_raises |-> raises,
     LANGCHAIN_PROVIDER |-> eprov, LANGCHAIN_MODEL |-> emodel,
     slot_config |-> sc, slot_env |-> se]

\* environments with the default slot list and no per-slot variable
PlainEnvironments ==
    { Environment(o, c, g, lib[1], lib[2], r, ep, em, _default_slots, NoSlotEnv) :
        o \in BOOLEAN, c \in BOOLEAN, g \in BOOLEAN,
        lib \in { << TRUE, TRUE >>, << TRUE, FALSE >>, << FALSE, TRUE >> },
        r \in { {}, {PROVIDER_OPENAI}, {PROVIDER_ANTHROPIC} },
        ep \in { << >>, t_GitHub, t_bogus },
        em \in { << >>, m_g } }

Environments ==
    { [[e EXCEPT !.slot_config = sc] EXCEPT !.slot_env = se] :
        e \in PlainEnvironments, sc \in SlotConfigs, se \in SlotEnvs }

ChatClientCall(model, provider, force_openai) ==
    [fn |-> "build_chat_client", model |-> model, model2 |-> << >>,
     provider |-> provider, force_openai |-> force_openai]

ChatClientsCall(model1, model2, provider) ==
    [fn |-> "build_chat_clients", model |-> model1, model2 |-> model2,
     provider |-> provider, force_openai |-> FALSE]

ProviderArguments == { t_openai, t_claude, t_github_models, t_bogus }

RsInit ==
    /\ rs_pc = "idle"
    /\ rs_env = Environment(FALSE, FALSE, FALSE, TRUE, TRUE, {}, << >>, << >>,
                            _default_slots, NoSlotEnv)
    /\ rs_call = ChatClientCall(<< >>, << >>, FALSE)
    /\ rs_result = << >>

\* build_chat_client() or build_chat_client(model=...)
BuildChatClientAuto ==
    /\ rs_pc = "idle"
    /\ \E env \in Environments, model \in { << >>, m_x } :
          /\ rs_env' = env
          /\ rs_call' = ChatClientCall(model, << >>, FALSE)
          /\ rs_result' = build_chat_client(env, model, << >>, FALSE)
    /\ rs_pc' = "done"
    /\ UNCHANGED rs_frame

\* build_chat_client(provider=...) and build_chat_client(force_openai=True)
BuildChatClientExplicit ==
    /\ rs_pc = "idle"
    /\ \E env \in PlainEnvironments, model \in { << >>, m_x },
          provider \in ProviderArguments \cup { << >> },
          force_openai \in BOOLEAN :
          /\ provider # << >> \/ force_openai
          /\ rs_env' = env
          /\ rs_call' = ChatClientCall(model, provider, force_openai)
          /\ rs_result' = build_chat_client(env, model, provider, force_openai)
    /\ rs_pc' = "done"
    /\ UNCHANGED rs_frame

\* build_chat_clients(), with or without model1 and model2
BuildChatClientsAuto ==
    /\ rs_pc = "idle"
    /\ \E env \in Environments,
          models \in { << << >>, << >> >>, << m_x, << >> >>, << << >>, m_y >>,
                       << m_x, m_y >>, << m_x, m_x >> } :
          /\ rs_env' = env
          /\ rs_call' = ChatClientsCall(models[1], models[2], << >>)
          /\ rs_result' = build_chat_clients(env, models[1], models[2], << >>)
    /\ rs_pc' = "done"
    /\ UNCHANGED rs_frame

\* build_chat_clients(provider=...)
BuildChatClientsExplicit ==
    /\ rs_pc = "idle"
    /\ \E env \in PlainEnvironments,
          models \in { << << >>, << >> >>, << m_x, << >> >>, << << >>, m_y >>,
                       << m_x, m_y >>, << m_x, m_x >> },
          provider \in ProviderArguments :
          /\ rs_env' = env
          /\ rs_call' = ChatClientsCall(models[1], models[2], provider)
          /\ rs_result' = build_chat_clients(env, models[1], models[2], provider)
    /\ rs_pc' = "done"
    /\ UNCHANGED rs_frame

Resolved == rs_pc = "done"
SingleCall == rs_call.fn = "build_chat_client"
ManyCall == rs_call.fn = "build_chat_clients"
NothingExplicit == rs_call.provider = << >> /\ ~rs_call.force_openai
Requested == _normalize_provider(rs_call.provider)
EnvProvider == _normalize_provider(rs_env.LANGCHAIN_PROVIDER)
Slots == _resolve_slots(rs_env)

\* the provider's credential variable is set
Credentialed(provider) ==
    \/ provider = "openai" /\ rs_env.OPENAI_API_KEY
    \/ provider = "anthropic" /\ rs_env.CLAUDE_API_STRANSKE
    \/ provider = "github-models" /\ rs_env.GITHUB_TOKEN

\* the provider's client class is imported and its constructor returns
ClientBuilds(provider) ==
    /\ rs_env.ChatOpenAI
    /\ provider = "anthropic" => rs_env.ChatAnthropic
    /\ provider \notin rs_env.constructor_raises

CredentialedSlots == { i \in DOMAIN Slots : Credentialed(Slots[i].provider) }
UsableSlots == { i \in CredentialedSlots : ClientBuilds(Slots[i].provider) }

\* C16 as stated: with no explicit provider build_chat_client returns a
\* handle bound to the first slot, in slot order, whose provider has a
\* credential, and absent when no slot has one.
C16_FirstCredentialedSlot ==
    (Resolved /\ SingleCall /\ NothingExplicit) =>
        IF CredentialedSlots = {} THEN rs_result = << >>
        ELSE /\ Len(rs_result) = 1
             /\ rs_result[1].provider = Slots[SetMin(CredentialedSlots)].provider

\* C16 amended: with no explicit provider, no force_openai and no recognized
\* LANGCHAIN_PROVIDER, build_chat_client returns a handle bound to the first
\* slot, in slot order, whose provider has a credential and whose client
\* can be built (class imported, constructor does not raise), and absent
\* when there is no such slot; with a recognized LANGCHAIN_PROVIDER the
\* slots are not walked and the result is a handle bound to that provider,
\* or absent when it has no credential or its client cannot be built.
C16_FirstUsableSlot ==
    (Resolved /\ SingleCall /\ NothingExplicit) =>
        IF EnvProvider \in Providers
        THEN IF Credentialed(EnvProvider) /\ ClientBuilds(EnvProvider)
             THEN /\ Len(rs_result) = 1
                  /\ rs_result[1].provider = EnvProvider
             ELSE rs_result = << >>
        ELSE IF UsableSlots = {} \/ ~rs_env.ChatOpenAI THEN rs_result = << >>
        ELSE /\ Len(rs_result) = 1
             /\ rs_result[1].provider = Slots[SetMin(UsableSlots)].provider

C16_Witness ==
    /\ Resolved /\ SingleCall /\ NothingExplicit
    /\ EnvProvider \notin Providers
    /\ Len(Slots) = 3
    /\ { Slots[i].provider : i \in 1 .. 3 } = Providers
    /\ CredentialedSlots = {2, 3} /\ UsableSlots = {2, 3}
    /\ Len(rs_result) = 1
    /\ rs_result[1].provider = Slots[2].provider

\* C17 as stated: with an explicit provider build_chat_client returns
\* absent when the provider has no credential or its name is not
\* recognized, and never a handle bound to another provider.
C17_ExplicitProviderOnly ==
    (Resolved /\ SingleCall /\ rs_call.provider # << >>) =>
        /\ (Requested = NoText \/ ~Credentialed(Requested)) => rs_result = << >>
        /\ rs_result # << >> => rs_result[1].provider = Requested

\* C17 amended: with an explicit provider and force_openai not set,
\* build_chat_client returns absent when the provider has no credential or
\* its name is not recognized, and never a handle bound to another
\* provider; with force_openai set the provider argument is ignored and
\* the result is a handle bound to openai, or absent when openai has no
\* credential.
C17_ExplicitProviderUnlessForced ==
    (Resolved /\ SingleCall /\ rs_call.provider # << >>) =>
        IF rs_call.force_openai
        THEN /\ ~Credentialed("openai") => rs_result = << >>
             /\ rs_result # << >> => rs_result[1].provider = "openai"
        ELSE /\ (Requested = NoText \/ ~Credentialed(Requested))
                    => rs_result = << >>
             /\ rs_result # << >> => rs_result[1].provider = Requested

C17_Witness ==
    /\ Resolved /\ SingleCall
    /\ rs_call.provider # << >> /\ ~rs_call.force_openai
    /\ Requested = "anthropic" /\ ~Credentialed("anthropic")
    /\ Credentialed("openai") /\ Credentialed("github-models")
    /\ ClientBuilds("openai") /\ ClientBuilds("github-models")
    /\ rs_result = << >>

\* C18: build_chat_clients returns at most two handles, each bound to a
\* provider that has a credential, pairwise distinct, and in slot order.
C18_TwoDistinctHandlesInSlotOrder ==
    (Resolved /\ ManyCall) =>
        /\ Len(rs_result) <= 2
        /\ \A k \in DOMAIN rs_result : Credentialed(rs_result[k].provider)
        /\ Len(rs_result) = 2 => rs_result[1] # rs_result[2]
        /\ (Len(rs_result) = 2 /\ rs_call.provider = << >>
                /\ EnvProvider \notin Providers) =>
               \E i, j \in DOMAIN Slots :
                   /\ i < j
                   /\ Slots[i].provider = rs_result[1].provider
                   /\ Slots[j].provider = rs_result[2].provider

\* C19: the model of the handle that auto-selection returns is the per-call
\* model when one is given, else the LANGCHAIN_SLOT<n>_MODEL value of the
\* selected slot when that is set, else the default model of that slot.
C19_ModelPrecedence ==
    (Resolved /\ SingleCall /\ NothingExplicit /\ EnvProvider \notin Providers
         /\ rs_result # << >>) =>
        LET n == SetMin(UsableSlots)
        IN rs_result[1].model =
               IF rs_call.model # << >> THEN rs_call.model
               ELSE IF rs_env.slot_env[n].model # << >>
               THEN Strip(rs_env.slot_env[n].model)
               ELSE rs_env.slot_config[n].model

RsNext ==
    \/ BuildChatClientAuto
    \/ BuildChatClientExplicit
    \/ BuildChatClientsAuto
    \/ BuildChatClientsExplicit

----------------------------------------------------------------------------
(* pr_verifier.py evaluate_pr and issue_optimizer.py analyze_issue: the    *)
(* retry against another provider after a failed invocation                *)

x_ok == << 111, 107 >>   \* the invocation returned a response
x_401 == << 69, 114, 114, 111, 114, 32, 99, 111, 100, 101, 58, 32, 52, 48, 49, 32, 45, 32, 98, 97, 100, 32, 99, 114, 101, 100, 101, 110, 116, 105, 97, 108, 115 >>   \* "Error code: 401 - bad credentials"
x_unauthorized == << 85, 110, 97, 117, 116, 104, 111, 114, 105, 122, 101, 100 >>   \* "Unauthorized"
x_413 == << 69, 114, 114, 111, 114, 32, 99, 111, 100, 101, 58, 32, 52, 49, 51, 32, 45, 32, 116, 111, 107, 101, 110, 115, 95, 108, 105, 109, 105, 116, 95, 114, 101, 97, 99, 104, 101, 100 >>   \* "Error code: 413 - tokens_limit_reached"
x_timeout == << 82, 101, 113, 117, 101, 115, 116, 32, 116, 105, 109, 101, 100, 32, 111, 117, 116 >>   \* "Request timed out"
t_slash == << 47 >>

\* what client.invoke / chain.invoke can do: return, or raise with a text
InvokeOutcomes == { x_ok, x_401, x_unauthorized, x_413, x_timeout }

auth_patterns ==
    { << 52, 48, 49 >>,    \* "401"
      << 117, 110, 97, 117, 116, 104, 111, 114, 105, 122, 101, 100 >>,    \* "unauthorized"
      << 102, 111, 114, 98, 105, 100, 100, 101, 110 >>,    \* "forbidden"
      << 52, 48, 51 >>,    \* "403"
      << 112, 101, 114, 109, 105, 115, 115, 105, 111, 110 >>,    \* "permission"
      << 97, 117, 116, 104, 101, 110, 116, 105, 99, 97, 116, 105, 111, 110 >> }   \* "authentication"

\* pr_verifier._is_auth_error
_is_auth_error(exc) ==
    \E pattern \in auth_patterns : Contains(Lower(exc), pattern)

\* llm_provider._is_token_limit_error
_is_token_limit_error(error) ==
    LET error_str == Lower(error)
        has_413 ==
            /\ Contains(error_str, << 52, 49, 51 >>)    \* "413"
            /\ \/ Contains(error_str, << 101, 114, 114, 111, 114, 32, 99, 111, 100, 101 >>)    \* "error code"
               \/ Contains(error_str, << 115, 116, 97, 116, 117, 115, 32, 99, 111, 100, 101 >>)    \* "status code"
        has_token_message ==
            \/ Contains(error_str, << 116, 111, 107, 101, 110, 115, 95, 108, 105, 109, 105, 116, 95, 114, 101, 97, 99, 104, 101, 100 >>)    \* "tokens_limit_reached"
            \/ Contains(error_str, << 114, 101, 113, 117, 101, 115, 116, 32, 98, 111, 100, 121, 32, 116, 111, 111, 32, 108, 97, 114, 103, 101 >>)    \* "request body too large"
    IN has_413 /\ has_token_message

\* the text of a PROVIDER_ constant
ProviderText(provider) ==
    CASE provider = PROVIDER_OPENAI -> t_openai
      [] provider = PROVIDER_ANTHROPIC -> t_anthropic
      [] OTHER -> t_github_dash_models

\* ClientInfo.provider_label
provider_label(info) == ProviderText(info.provider) \o t_slash \o info.model

FallbackProviderSame(provider_name) ==
    IF Contains(provider_name, t_github_dash_models)
    THEN t_github_dash_models ELSE t_openai

\* fallback_provider = "openai" if "github-models" in provider_name
\*                     else "github-models"
fallback_provider(provider_name) ==
    IF Contains(provider_name, t_github_dash_models)
    THEN t_openai ELSE t_github_dash_models

\* an entry of the history of resolutions and invocations
LogEntry(step, role, provider) ==
    [step |-> step, role |-> role, provider |-> provider]

\* the provider of a resolved client, NoText when none was resolved
ProviderOf(resolved) ==
    IF resolved = << >> THEN NoText ELSE resolved[1].provider

\* the fields of the EvaluationPayload a schema-valid text carries
EvaluationPayload(text) ==
    IF text = "ok1"
    THEN [verdict |-> "PASS", scores |-> Some("scores"),
          confidence |-> Some(90), concerns |-> << >>,
          summary |-> "All criteria met"]
    ELSE [verdict |-> "CONCERNS", scores |-> None,
          confidence |-> Some(40), concerns |-> << "missing tests" >>,
          summary |-> NoText]

\* an error message: a literal text with the values formatted into it
ErrorMessage(text, primary, fallback, detail) ==
    [text |-> text, primary |-> primary, fallback |-> fallback,
     detail |-> detail]

EvaluationResult(verdict, scores, confidence, concerns, summary, provider_used, used_llm, raw_content, error) ==
    [verdict |-> verdict, scores |-> scores, confidence |-> confidence,
     concerns |-> concerns, summary |-> summary,
     provider_used |-> provider_used, model |-> None, used_llm |-> used_llm,
     raw_content |-> raw_content, error |-> error, change_type |-> None]

FallbackEvaluationUsedLlm(message, provider, model) ==
    [EvaluationResult("CONCERNS", None, None,
         << "LLM evaluation could not run." >>,
         "Review the PR manually or re-run once LLM credentials are available.",
         provider, TRUE, NoText, Some(message))
     EXCEPT !.model = model]

\* _fallback_evaluation(message, provider=None, model=None)
_fallback_evaluation(message, provider, model) ==
    [EvaluationResult("CONCERNS", None, None,
         << "LLM evaluation could not run." >>,
         "Review the PR manually or re-run once LLM credentials are available.",
         provider, FALSE, NoText, Some(message))
     EXCEPT !.model = model]

\* content = getattr(response, "content", None) or str(response)
ContentOrStr(response) ==
    IF Truthy(ContentOf(response)) THEN ContentOf(response)
    ELSE StrOf(response)

\* parse_structured_output(content, EvaluationPayload,
\*     repair=build_repair_callback(client), max_repair_attempts=1)
\* where repair_response is what client.invoke does for the repair prompt
parse_structured_output(content, repair_response) ==
    LET v == model_validate_json(content)
        repaired == build_repair_callback(repair_response).value
    IN IF v.ok
       THEN StructuredOutputResult(v.payload, content, "none", NoDetail, 0)
       ELSE IF NoRepairStep("callback", clamp_repair_attempts(1))
       THEN NoRepairResult(v.detail)
       ELSE IF ~Truthy(repaired)
       THEN RepairUnavailableResult(v.detail)
       ELSE RepairedResult(repaired, v.detail)

ParsedResultSilent(parsed, content, provider) ==
    IF parsed.payload = NoPayload
    THEN EvaluationResult("CONCERNS", None, None, << >>, NoText,
             Some(provider), TRUE, content, None)
    ELSE LET payload == EvaluationPayload(parsed.payload[1])
         IN EvaluationResult(payload.verdict, payload.scores,
                payload.confidence, payload.concerns, payload.summary,
                Some(provider), TRUE,
                IF Truthy(parsed.raw_content) THEN parsed.raw_content
                ELSE content,
                None)

\* _parse_llm_response after its call of parse_structured_output
ParsedResult(parsed, content, provider) ==
    IF parsed.payload = NoPayload
    THEN EvaluationResult("CONCERNS", None, None, << >>, NoText,
             Some(provider), TRUE, content,
             Some(ErrorMessage(
                 IF parsed.error_stage = "repair_validation"
                 THEN "Failed to parse JSON response after repair: {detail}"
                 ELSE "Failed to parse JSON response: {detail}",
                 << >>, << >>, parsed.error_detail)))
    ELSE LET payload == EvaluationPayload(parsed.payload[1])
         IN EvaluationResult(payload.verdict, payload.scores,
                payload.confidence, payload.concerns, payload.summary,
                Some(provider), TRUE,
                IF Truthy(parsed.raw_content) THEN parsed.raw_content
                ELSE content,
                None)

\* _parse_llm_response(content, provider, client=client)
_parse_llm_response(content, provider, repair_response) ==
    ParsedResult(parse_structured_output(content, repair_response),
                 content, provider)

\* the "Add note about fallback" step of evaluate_pr
FallbackNote(result, provider_name, fallback_provider_name, change_type) ==
    IF Truthy(result.summary)
    THEN [EvaluationResult(result.verdict, result.scores, None,
              result.concerns, result.summary, Some(fallback_provider_name),
              result.used_llm, result.raw_content,
              Some(ErrorMessage(
                  "Primary provider ({primary}) failed, used fallback",
                  provider_name, << >>, NoDetail)))
          EXCEPT !.model = result.model, !.change_type = Some(change_type)]
    ELSE [result EXCEPT !.change_type = Some(change_type)]

\* _classify_change_type(diff) for the absent diff evaluate_pr is called with
_classify_change_type == "application"

\* what the evaluation prompt is answered with when the invocation returns
EvaluationResponses ==
    { r \in BackendResponses :
        /\ r.kind \in {"message", "null"}
        /\ r.text \in {"ok1", "ok2", "bad1", "", NoText} }

\* what the repair prompt is answered with
RepairResponses ==
    { r \in BackendResponses :
        /\ r.kind \in {"message", "raise"}
        /\ r.text \in {"ok1", "bad2", "", NoText} }

FbInit ==
    /\ fb_pc = "idle"
    /\ fb_call = [fn |-> "none", model |-> << >>, provider |-> << >>]
    /\ fb_env = Environment(FALSE, FALSE, FALSE, TRUE, TRUE, {}, << >>, << >>,
                            _default_slots, NoSlotEnv)
    /\ fb_primary = << >>
    /\ fb_substitute = << >>
    /\ fb_log = << >>
    /\ fb_outcome = "pending"
    /\ fb_exc = << >>
    /\ fb_parsed = NoResult
    /\ fb_result = None

\* evaluate_pr up to its first invocation: resolved = _get_llm_client(...)
EvaluatePrResolve ==
    /\ fb_pc = "idle"
    /\ \E env \in PlainEnvironments, model \in { << >>, m_x },
          provider \in ProviderArguments \cup { << >> } :
          LET resolved == build_chat_client(env, model, provider, FALSE)
          IN /\ fb_env' = env
             /\ fb_call' = [fn |-> "evaluate_pr", model |-> model,
                            provider |-> provider]
             /\ fb_primary' = resolved
             /\ fb_log' = << LogEntry("resolve", "primary", ProviderOf(resolved)) >>
             /\ IF resolved = << >>
                THEN /\ fb_pc' = "done" /\ fb_outcome' = "client_unavailable"
                     /\ fb_result' = Some(_fallback_evaluation(ErrorMessage(
                            "LLM client unavailable (missing credentials or dependency).",
                            << >>, << >>, NoDetail), None, None))
                ELSE /\ fb_pc' = "primary" /\ fb_outcome' = "pending"
                     /\ UNCHANGED fb_result
    /\ UNCHANGED << fb_substitute, fb_exc, fb_parsed >>
    /\ UNCHANGED fb_frame

\* evaluate_pr from the first _invoke_llm to the return or to the second
\* _invoke_llm
EvaluatePrInvoke ==
    /\ fb_pc = "primary" /\ fb_call.fn = "evaluate_pr"
    /\ \E exc \in InvokeOutcomes, response \in EvaluationResponses,
          repair_response \in RepairResponses :
          LET provider_name == provider_label(fb_primary[1])
              change_type == _classify_change_type
              invoked == Append(fb_log, LogEntry("invoke", "primary",
                                                 fb_primary[1].provider))
              fallback_resolved ==
                  build_chat_client(fb_env, fb_call.model,
                      fallback_provider(provider_name), FALSE)
              content == ContentOrStr(response)
              failed == [_fallback_evaluation(ErrorMessage(
                             "LLM invocation failed: {exc}", exc, << >>,
                             NoDetail), None, None)
                         EXCEPT !.change_type = Some(change_type)]
          IN /\ fb_exc' = exc
             /\ IF exc = x_ok
                THEN /\ fb_log' = invoked
                     /\ fb_pc' = "done" /\ fb_outcome' = "evaluated"
                     /\ fb_parsed' = parse_structured_output(content,
                                                             repair_response)
                     /\ fb_result' =
                           Some([_parse_llm_response(content, provider_name,
                                                     repair_response)
                                 EXCEPT !.change_type = Some(change_type)])
                     /\ UNCHANGED fb_substitute
                ELSE IF _is_auth_error(exc) /\ fb_call.provider = << >>
                THEN /\ fb_substitute' = fallback_resolved
                     /\ fb_log' = Append(invoked,
                            LogEntry("resolve", "substitute",
                                     ProviderOf(fallback_resolved)))
                     /\ UNCHANGED fb_parsed
                     /\ IF fallback_resolved # << >>
                        THEN /\ fb_pc' = "substitute" /\ fb_outcome' = "pending"
                             /\ UNCHANGED fb_result
                        ELSE /\ fb_pc' = "done"
                             /\ fb_outcome' = "invocation_failed"
                             /\ fb_result' = Some(failed)
                ELSE /\ fb_log' = invoked
                     /\ fb_pc' = "done" /\ fb_outcome' = "invocation_failed"
                     /\ fb_result' = Some(failed)
                     /\ UNCHANGED << fb_substitute, fb_parsed >>
    /\ UNCHANGED << fb_call, fb_env, fb_primary >>
    /\ UNCHANGED fb_frame

\* evaluate_pr from the second _invoke_llm to the return
EvaluatePrInvokeFallback ==
    /\ fb_pc = "substitute" /\ fb_call.fn = "evaluate_pr"
    /\ \E fallback_exc \in InvokeOutcomes, response \in EvaluationResponses,
          repair_response \in RepairResponses :
          LET provider_name == provider_label(fb_primary[1])
              fallback_provider_name == provider_label(fb_substitute[1])
              change_type == _classify_change_type
              exc == fb_exc
              content == ContentOrStr(response)
              result == _parse_llm_response(content, fallback_provider_name,
                                            repair_response)
          IN /\ fb_log' = Append(fb_log, LogEntry("invoke", "substitute",
                                                  fb_substitute[1].provider))
             /\ IF fallback_exc = x_ok
                THEN /\ fb_outcome' = "fallback_evaluated"
                     /\ fb_parsed' = parse_structured_output(content,
                                                             repair_response)
                     /\ fb_result' = Some(FallbackNote(result, provider_name,
                                              fallback_provider_name,
                                              change_type))
                ELSE /\ fb_outcome' = "both_failed"
                     /\ fb_result' =
                           Some([_fallback_evaluation(ErrorMessage(
                                     "Primary ({primary}): {exc}; Fallback ({fallback}): {fallback_exc}",
                                     exc, fallback_exc, NoDetail),
                                     None, None)
                                 EXCEPT !.change_type = Some(change_type)])
                     /\ UNCHANGED fb_parsed
    /\ fb_pc' = "done"
    /\ UNCHANGED << fb_call, fb_env, fb_primary, fb_substitute, fb_exc >>
    /\ UNCHANGED fb_frame

\* analyze_issue up to its first invocation: client_info = _get_llm_client()
AnalyzeIssueResolve ==
    /\ fb_pc = "idle"
    /\ \E env \in PlainEnvironments, use_llm \in BOOLEAN,
          prompts_importable \in BOOLEAN :
          LET client_info == build_chat_client(env, << >>, << >>, FALSE)
          IN /\ fb_env' = env
             /\ fb_call' = [fn |-> "analyze_issue", model |-> << >>,
                            provider |-> << >>]
             /\ IF ~use_llm
                THEN /\ fb_primary' = << >> /\ fb_log' = << >>
                     /\ fb_pc' = "done" /\ fb_outcome' = "fallback_analysis"
                ELSE /\ fb_primary' = client_info
                     /\ fb_log' = << LogEntry("resolve", "primary",
                                              ProviderOf(client_info)) >>
                     /\ IF client_info = << >> \/ ~prompts_importable
                        THEN fb_pc' = "done" /\ fb_outcome' = "fallback_analysis"
                        ELSE fb_pc' = "primary" /\ fb_outcome' = "pending"
    /\ UNCHANGED << fb_substitute, fb_exc, fb_parsed, fb_result >>
    /\ UNCHANGED fb_frame

\* analyze_issue from the first _invoke_llm_with_trace to the return or to
\* the second _invoke_llm_with_trace
AnalyzeIssueInvoke ==
    /\ fb_pc = "primary" /\ fb_call.fn = "analyze_issue"
    /\ \E e \in InvokeOutcomes, has_result \in BOOLEAN :
          LET invoked == Append(fb_log, LogEntry("invoke", "primary",
                                                 fb_primary[1].provider))
              openai_client_info == build_chat_client(fb_env, << >>, << >>, TRUE)
          IN IF e = x_ok
             THEN /\ fb_log' = invoked
                  /\ fb_pc' = "done"
                  /\ fb_outcome' = IF has_result THEN "analyzed"
                                   ELSE "fallback_analysis"
                  /\ UNCHANGED fb_substitute
             ELSE IF /\ _is_token_limit_error(e)
                     /\ fb_primary[1].provider = PROVIDER_GITHUB
             THEN /\ fb_substitute' = openai_client_info
                  /\ fb_log' = Append(invoked,
                         LogEntry("resolve", "substitute",
                                  ProviderOf(openai_client_info)))
                  /\ IF openai_client_info # << >>
                     THEN fb_pc' = "substitute" /\ fb_outcome' = "pending"
                     ELSE fb_pc' = "done" /\ fb_outcome' = "fallback_analysis"
             ELSE /\ fb_log' = invoked
                  /\ fb_pc' = "done" /\ fb_outcome' = "fallback_analysis"
                  /\ UNCHANGED fb_substitute
    /\ UNCHANGED << fb_call, fb_env, fb_primary, fb_exc, fb_parsed,
                    fb_result >>
    /\ UNCHANGED fb_frame

\* analyze_issue from the second _invoke_llm_with_trace to the return
AnalyzeIssueInvokeFallback ==
    /\ fb_pc = "substitute" /\ fb_call.fn = "analyze_issue"
    /\ \E openai_error \in InvokeOutcomes, has_result \in BOOLEAN :
          /\ fb_log' = Append(fb_log, LogEntry("invoke", "substitute",
                                               fb_substitute[1].provider))
          /\ fb_outcome' = IF openai_error = x_ok /\ has_result
                           THEN "analyzed_by_substitute"
                           ELSE "fallback_analysis"
    /\ fb_pc' = "done"
    /\ UNCHANGED << fb_call, fb_env, fb_primary, fb_substitute, fb_exc,
                    fb_parsed, fb_result >>
    /\ UNCHANGED fb_frame

SubstituteEntries(step) ==
    { i \in DOMAIN fb_log :
        fb_log[i].role = "substitute" /\ fb_log[i].step = step }

\* C20: evaluate_pr and analyze_issue resolve and invoke at most one
\* substitute provider, it differs from the provider that failed, nothing
\* is resolved or invoked after the substitute's invocation, and
\* evaluate_pr resolves no substitute when the caller named the provider.
C20_AtMostOneSubstitute ==
    /\ Cardinality(SubstituteEntries("resolve")) <= 1
    /\ Cardinality(SubstituteEntries("invoke")) <= 1
    /\ \A i \in DOMAIN fb_log :
          fb_log[i].role = "substitute" =>
              /\ fb_log[i].provider # fb_primary[1].provider
              /\ \E j \in 1 .. (i - 1) :
                    fb_log[j] = LogEntry("invoke", "primary",
                                         fb_primary[1].provider)
    /\ \A i \in SubstituteEntries("invoke") :
          /\ i = Len(fb_log)
          /\ fb_log[i - 1] = LogEntry("resolve", "substitute", fb_log[i].provider)
    /\ (fb_call.fn = "evaluate_pr" /\ fb_call.provider # << >>) =>
          /\ SubstituteEntries("resolve") = {}
          /\ SubstituteEntries("invoke") = {}

C20_Witness ==
    /\ fb_pc = "done" /\ fb_call.fn = "evaluate_pr"
    /\ fb_outcome = "both_failed"
    /\ Len(fb_log) = 4
    /\ fb_log[2] = LogEntry("invoke", "primary", "anthropic")
    /\ fb_log[4] = LogEntry("invoke", "substitute", "github-models")

\* evaluate_pr has returned
PrEvaluated == fb_pc = "done" /\ fb_call.fn = "evaluate_pr"

\* the returned EvaluationResult
PrResult == fb_result[1]

\* the result satisfies the field constraints of EvaluationResult
WellFormed(r) ==
    /\ r.verdict \in {"PASS", "CONCERNS", "FAIL"}
    /\ r.confidence # None => r.confidence[1] \in 0 .. 100
    /\ r.used_llm \in BOOLEAN
    /\ r.change_type # None =>
          r.change_type[1] \in {"infrastructure", "application", "mixed"}

\* the result carries a non-empty error text
HasError(r) == r.error # None /\ r.error[1].text # ""

\* the verdict and the other evaluation fields are those of the payload
FromPayload(r, payload) ==
    /\ r.verdict = payload.verdict
    /\ r.scores = payload.scores
    /\ r.concerns = payload.concerns
    /\ r.summary = payload.summary

\* C21: evaluate_pr always returns a well-formed EvaluationResult.  When no
\* backend was resolved, or the invocation failed (also after the one
\* fallback attempt), the result has a non-empty error and used_llm = false;
\* when the output failed validation after the repair attempt, the result
\* has a non-empty error; and a result without error has the verdict of a
\* validated payload.
C21_FailureCarriesError ==
    PrEvaluated =>
        /\ fb_result # None
        /\ WellFormed(PrResult)
        /\ fb_outcome \in {"client_unavailable", "invocation_failed",
                           "both_failed"} =>
              HasError(PrResult) /\ ~PrResult.used_llm
        /\ (fb_outcome \in {"evaluated", "fallback_evaluated"}
               /\ fb_parsed.payload = NoPayload) =>
              HasError(PrResult) /\ PrResult.used_llm
        /\ ~HasError(PrResult) =>
              /\ fb_parsed.payload # NoPayload
              /\ FromPayload(PrResult, EvaluationPayload(fb_parsed.payload[1]))

C21_Witness ==
    /\ PrEvaluated
    /\ fb_outcome = "fallback_evaluated"
    /\ fb_parsed.error_stage = "repair_validation"
    /\ HasError(PrResult) /\ PrResult.used_llm

\* C30 as stated: when the answer comes from the fallback provider and is
\* a schema-valid payload, the result carries the payload's verdict, scores,
\* concerns, summary and confidence unchanged, provider_used names the
\* fallback provider, and the result equals the one the primary path builds
\* from the same payload except for provider_used and error.
C30_FallbackCarriesPayload ==
    (PrEvaluated /\ fb_outcome = "fallback_evaluated"
        /\ fb_parsed.payload # NoPayload) =>
        LET payload == EvaluationPayload(fb_parsed.payload[1])
            primary == [ParsedResult(fb_parsed, PrResult.raw_content,
                                     provider_label(fb_primary[1]))
                        EXCEPT !.change_type = Some(_classify_change_type)]
        IN /\ FromPayload(PrResult, payload)
           /\ PrResult.confidence = payload.confidence
           /\ PrResult.provider_used = Some(provider_label(fb_substitute[1]))
           /\ [PrResult EXCEPT !.provider_used = None, !.error = None]
                 = [primary EXCEPT !.provider_used = None, !.error = None]

FbNext ==
    \/ EvaluatePrResolve
    \/ EvaluatePrInvoke
    \/ EvaluatePrInvokeFallback
    \/ AnalyzeIssueResolve
    \/ AnalyzeIssueInvoke
    \/ AnalyzeIssueInvokeFallback

----------------------------------------------------------------------------
(* trip_planner/penalty.py, calc_penalty *)
(* cost_sensitivity is in hundredths; the penalty is a number of units of  *)
(* 1 / PenaltyScale, which makes every product below exact.                *)

\* cost_weight = 0.25, in hundredths
cost_weight == 25

\* hundredths (cost_weight) x hundredths (cost_sensitivity) x fifths
PenaltyScale == 50000

CalcPenaltyNoSafeguard(segment_cost, global_significance, cost_sensitivity) ==
    IF cost_sensitivity = 0 THEN 0
    ELSE cost_weight * (segment_cost - 1) * cost_sensitivity
             * (5 - global_significance)

calc_penalty(segment_cost, global_significance, cost_sensitivity) ==
    IF global_significance >= 4 THEN 0
    ELSE IF cost_sensitivity = 0 THEN 0
    ELSE cost_weight * (segment_cost - 1) * cost_sensitivity
             * (5 - global_significance)

\* the cost sensitivity slider, 0 to 1 in steps of 0.05
CostSensitivities == { 5 * k : k \in 0 .. 20 }

PenInit ==
    /\ pen_pc = "idle"
    /\ pen_args = [segment_cost |-> 1, global_significance |-> 1,
                   cost_sensitivity |-> 0]
    /\ pen_result = 0

\* one call of calc_penalty
CalcPenalty ==
    /\ pen_pc = "idle"
    /\ \E segment_cost \in 1 .. MaxSegmentCost,
          global_significance \in 1 .. MaxGlobalSignificance,
          cost_sensitivity \in CostSensitivities :
          /\ pen_args' = [segment_cost |-> segment_cost,
                          global_significance |-> global_significance,
                          cost_sensitivity |-> cost_sensitivity]
          /\ pen_result' = calc_penalty(segment_cost, global_significance,
                                        cost_sensitivity)
    /\ pen_pc' = "done"
    /\ UNCHANGED pen_frame

PenNext == CalcPenalty

----------------------------------------------------------------------------
(* tools/llm_provider.py: the providers, FallbackChainProvider and         *)
(* get_llm_provider                                                         *)

\* the name property of the three provider classes
GitHubModelsProvider == "github-models"
OpenAIProvider == "openai"
RegexFallbackProvider == "regex-fallback"

ProviderClasses ==
    {GitHubModelsProvider, OpenAIProvider, RegexFallbackProvider}

\* what the providers read: the two tokens and whether langchain_openai
\* can be imported
ChainEnvs ==
    [GITHUB_TOKEN : BOOLEAN, OPENAI_API_KEY : BOOLEAN,
     langchain_openai : BOOLEAN]

\* is_available of each provider class
is_available(provider, env) ==
    CASE provider = GitHubModelsProvider -> env.GITHUB_TOKEN
      [] provider = OpenAIProvider -> env.OPENAI_API_KEY
      [] provider = RegexFallbackProvider -> TRUE

\* _get_client: None when langchain_openai cannot be imported
_get_client(provider, env) == env.langchain_openai

\* what client.invoke does: it raises, or it answers with a JSON object
\* carrying a confidence (a number, or null), or with text holding no JSON
Answers ==
    { [kind |-> "raises", confidence |-> None],
      [kind |-> "json", confidence |-> Some(85)],
      [kind |-> "json", confidence |-> Some(150)],
      [kind |-> "json", confidence |-> None],
      [kind |-> "no_json", confidence |-> None] }

CompletionAnalysis(confidence, reasoning, provider_used) ==
    [confidence |-> confidence, reasoning |-> reasoning,
     provider_used |-> provider_used]

Raised == [raised |-> TRUE, result |-> None]
Returned(analysis) == [raised |-> FALSE, result |-> Some(analysis)]

\* _parse_response with quality_context = None: float(None) is a TypeError,
\* which the except clause for JSONDecodeError and ValueError does not catch
\* provider_used is the name of the GitHubModelsProvider it is a method of
_parse_response(answer) ==
    IF answer.kind = "no_json"
    THEN Returned(CompletionAnalysis(0, "Failed to parse response",
                                     GitHubModelsProvider))
    ELSE IF answer.confidence = None
    THEN Raised
    ELSE Returned(CompletionAnalysis(
             _validate_confidence(
                 [raw |-> answer.confidence[1], completed |-> 0,
                  in_progress |-> 0, quality_context |-> None,
                  reasoning |-> s_reason_plain]).confidence,
             "llm", GitHubModelsProvider))

\* the result with provider_used replaced ("Override provider name")
OverrideProviderName(out, name) ==
    IF out.raised THEN out
    ELSE Returned([out.result[1] EXCEPT !.provider_used = name])

ProviderAnalysisNoOverride(provider, env, answer) ==
    IF provider = RegexFallbackProvider
    THEN Returned(CompletionAnalysis(30, "Pattern-based analysis", provider))
    ELSE IF ~_get_client(provider, env) \/ answer.kind = "raises"
    THEN Raised
    ELSE _parse_response(answer)

\* analyze_completion of each provider class
ProviderAnalysis(provider, env, answer) ==
    IF provider = RegexFallbackProvider
    THEN Returned(CompletionAnalysis(30, "Pattern-based analysis", provider))
    ELSE IF ~_get_client(provider, env) \/ answer.kind = "raises"
    THEN Raised
    ELSE IF provider = OpenAIProvider
    THEN OverrideProviderName(_parse_response(answer), provider)
    ELSE _parse_response(answer)

DefaultChainWithoutRegex == << GitHubModelsProvider, OpenAIProvider >>

\* get_llm_provider() without force_provider: the providers of the chain
get_llm_provider ==
    << GitHubModelsProvider, OpenAIProvider, RegexFallbackProvider >>

\* the provider lists a FallbackChainProvider is constructed with
Chains ==
    UNION { [1 .. n -> ProviderClasses] : n \in 0 .. MaxProviders }

LoopEntry(index, provider, outcome) ==
    [index |-> index, provider |-> provider, outcome |-> outcome]

ChInit ==
    /\ ch_pc = "idle"
    /\ ch_providers = << >>
    /\ ch_env = [GITHUB_TOKEN |-> FALSE, OPENAI_API_KEY |-> FALSE,
                 langchain_openai |-> FALSE]
    /\ ch_index = 1
    /\ ch_log = << >>
    /\ ch_last_error = None
    /\ ch_result = None

\* FallbackChainProvider(providers).analyze_completion is called
ChainCall ==
    /\ ch_pc = "idle"
    /\ \E providers \in Chains, env \in ChainEnvs :
          /\ ch_providers' = providers
          /\ ch_env' = env
    /\ ch_pc' = "loop"
    /\ UNCHANGED << ch_index, ch_log, ch_last_error, ch_result >>
    /\ UNCHANGED ch_frame

\* if not provider.is_available(): continue
ChainSkip ==
    /\ ch_pc = "loop"
    /\ ch_index <= Len(ch_providers)
    /\ ~is_available(ch_providers[ch_index], ch_env)
    /\ ch_log' = Append(ch_log,
                        LoopEntry(ch_index, ch_providers[ch_index], "skipped"))
    /\ ch_index' = ch_index + 1
    /\ UNCHANGED << ch_pc, ch_providers, ch_env, ch_last_error, ch_result >>
    /\ UNCHANGED ch_frame

\* the try block: provider.analyze_completion returns, and so does the chain
ChainAttemptReturns ==
    /\ ch_pc = "loop"
    /\ ch_index <= Len(ch_providers)
    /\ is_available(ch_providers[ch_index], ch_env)
    /\ \E answer \in Answers :
          LET out == ProviderAnalysis(ch_providers[ch_index], ch_env, answer)
          IN /\ ~out.raised
             /\ ch_result' = out.result
    /\ ch_log' = Append(ch_log,
                        LoopEntry(ch_index, ch_providers[ch_index], "returned"))
    /\ ch_pc' = "returned"
    /\ UNCHANGED << ch_providers, ch_env, ch_index, ch_last_error >>
    /\ UNCHANGED ch_frame

\* the except block: last_error = e; continue
ChainAttemptRaises ==
    /\ ch_pc = "loop"
    /\ ch_index <= Len(ch_providers)
    /\ is_available(ch_providers[ch_index], ch_env)
    /\ \E answer \in Answers :
          ProviderAnalysis(ch_providers[ch_index], ch_env, answer).raised
    /\ ch_log' = Append(ch_log,
                        LoopEntry(ch_index, ch_providers[ch_index], "raised"))
    /\ ch_last_error' = Some(ch_providers[ch_index])
    /\ ch_index' = ch_index + 1
    /\ UNCHANGED << ch_pc, ch_providers, ch_env, ch_result >>
    /\ UNCHANGED ch_frame

\* after the loop: RuntimeError("All providers failed...") or
\* RuntimeError("No providers available")
ChainRaise ==
    /\ ch_pc = "loop"
    /\ ch_index > Len(ch_providers)
    /\ ch_pc' = "raised"
    /\ UNCHANGED << ch_providers, ch_env, ch_index, ch_log, ch_last_error,
                    ch_result >>
    /\ UNCHANGED ch_frame

Available(i) == is_available(ch_providers[i], ch_env)
Attempted(k) == ch_log[k].outcome \in {"raised", "returned"}

\* C24: the chain handles its providers strictly in list order, each at
\* most once; a provider that is not available is skipped and never
\* attempted; a provider is attempted only after every earlier available
\* provider has raised; and the first provider that succeeds ends the call
\* with its result, no later provider being attempted.
C24_ListOrderFirstSuccess ==
    /\ \A k \in DOMAIN ch_log :
          /\ ch_log[k].index = k
          /\ ch_log[k].provider = ch_providers[k]
          /\ (ch_log[k].outcome = "skipped") = ~Available(k)
          /\ Attempted(k) =>
                \A j \in 1 .. (k - 1) :
                    Available(j) => ch_log[j].outcome = "raised"
          /\ ch_log[k].outcome = "returned" =>
                /\ k = Len(ch_log)
                /\ ch_pc = "returned"
                /\ ch_result # None
                /\ ch_result[1].provider_used = ch_providers[k]
    /\ Len(ch_log) <= Len(ch_providers)
    /\ ch_pc = "returned" =>
          /\ ch_log # << >>
          /\ ch_log[Len(ch_log)].outcome = "returned"

C24_Witness ==
    /\ ch_pc = "returned"
    /\ ch_providers = get_llm_provider
    /\ Len(ch_log) = 2
    /\ ch_log[1].outcome = "raised"
    /\ ch_log[2].outcome = "returned"
    /\ ch_result[1].provider_used = OpenAIProvider

LlmProvidersBefore(k) ==
    { j \in 1 .. (k - 1) : ch_providers[j] # RegexFallbackProvider }

\* C29: a call on the default chain of get_llm_provider() always ends by
\* returning a CompletionAnalysis and never by raising; an analysis with
\* provider_used = regex-fallback is returned only if every LLM provider
\* before the regex provider was unavailable or raised; and any chain
\* raises only when each of its providers was unavailable or raised.
C29_DefaultChainAlwaysAnswers ==
    /\ [](ch_pc = "raised" =>
            /\ ch_providers # get_llm_provider
            /\ ch_result = None
            /\ \A i \in DOMAIN ch_providers :
                  \/ ~Available(i)
                  \/ (i \in DOMAIN ch_log /\ ch_log[i].outcome = "raised"))
    /\ []((ch_pc = "returned"
             /\ ch_result[1].provider_used = RegexFallbackProvider) =>
            \A j \in LlmProvidersBefore(Len(ch_log)) :
                \/ ~Available(j)
                \/ ch_log[j].outcome = "raised")
    /\ ((ch_pc = "loop" /\ ch_providers = get_llm_provider)
            ~> (ch_pc = "returned" /\ ch_result # None))

C29_Witness ==
    /\ ch_pc = "returned"
    /\ ch_providers = get_llm_provider
    /\ ch_env.GITHUB_TOKEN
    /\ ~ch_env.OPENAI_API_KEY
    /\ ch_log[1].outcome = "raised"
    /\ ch_log[2].outcome = "skipped"
    /\ ch_result[1].provider_used = RegexFallbackProvider

ChNext ==
    \/ ChainCall
    \/ ChainSkip
    \/ ChainAttemptReturns
    \/ ChainAttemptRaises
    \/ ChainRaise

----------------------------------------------------------------------------
(* pr_verifier.py evaluate_pr_multiple and ComparisonRunner.run_single *)

\* what the evaluation prompt and the repair prompt are answered with
CompareResponses ==
    { r \in EvaluationResponses : r.kind = "message" /\ r.text \in {"ok1", "bad1"} }
CompareRepairResponses ==
    { r \in RepairResponses : r.text \in {"ok1", "bad2", NoText} }

\* what one invocation can do: return, time out, or fail otherwise
CompareOutcomes == { x_ok, x_timeout, x_401 }

\* run_single(client, provider, model) when _invoke_llm raises exc
RunSingleFailed(exc, info) ==
    _fallback_evaluation(
        ErrorMessage("LLM invocation failed: {exc}", exc, << >>, NoDetail),
        Some(info.provider), Some(info.model))

\* run_single(client, provider, model) when _invoke_llm returns response
RunSingleParsed(response, repair_response, info) ==
    [_parse_llm_response(ContentOrStr(response), info.provider,
                         repair_response)
     EXCEPT !.model = Some(info.model)]

MuInit ==
    /\ mu_pc = "idle"
    /\ mu_env = Environment(FALSE, FALSE, FALSE, TRUE, TRUE, {}, << >>, << >>,
                            _default_slots, NoSlotEnv)
    /\ mu_call = [model1 |-> << >>, model2 |-> << >>]
    /\ mu_clients = << >>
    /\ mu_invoked = << >>
    /\ mu_parsed = << >>
    /\ mu_results = << >>

\* evaluate_pr_multiple up to the loop, or to the return of the one fallback
\* result when runner.clients is empty
EvaluatePrMultiple ==
    /\ mu_pc = "idle"
    /\ \E env \in PlainEnvironments,
          models \in { << << >>, << >> >>, << m_x, << >> >>, << m_x, m_y >> } :
          LET clients == build_chat_clients(env, models[1], models[2], << >>)
          IN /\ mu_env' = env
             /\ mu_call' = [model1 |-> models[1], model2 |-> models[2]]
             /\ mu_clients' = clients
             /\ IF clients = << >>
                THEN /\ mu_results' =
                          << [_fallback_evaluation(ErrorMessage(
                                  "LLM client unavailable (missing credentials or dependency).",
                                  << >>, << >>, NoDetail), None, None)
                              EXCEPT !.change_type =
                                         Some(_classify_change_type)] >>
                     /\ mu_pc' = "done"
                ELSE /\ mu_results' = << >>
                     /\ mu_pc' = "loop"
    /\ UNCHANGED << mu_invoked, mu_parsed >>
    /\ UNCHANGED mu_frame

\* the position after one more result was appended
AfterAppend(results) ==
    IF Len(results) = Len(mu_clients) THEN "done" ELSE "loop"

\* one turn of the loop in which _invoke_llm raises
RunSingleRaises ==
    /\ mu_pc = "loop"
    /\ \E exc \in CompareOutcomes \ {x_ok} :
          LET info == mu_clients[Len(mu_results) + 1]
              result == [RunSingleFailed(exc, info)
                         EXCEPT !.change_type = Some(_classify_change_type)]
          IN /\ mu_invoked' = Append(mu_invoked, exc)
             /\ mu_parsed' = Append(mu_parsed, NoResult)
             /\ mu_results' = Append(mu_results, result)
             /\ mu_pc' = AfterAppend(Append(mu_results, result))
    /\ UNCHANGED << mu_env, mu_call, mu_clients >>
    /\ UNCHANGED mu_frame

\* one turn of the loop in which _invoke_llm returns
RunSingleReturns ==
    /\ mu_pc = "loop"
    /\ \E response \in CompareResponses,
          repair_response \in CompareRepairResponses :
          LET info == mu_clients[Len(mu_results) + 1]
              result == [RunSingleParsed(response, repair_response, info)
                         EXCEPT !.change_type = Some(_classify_change_type)]
          IN /\ mu_invoked' = Append(mu_invoked, x_ok)
             /\ mu_parsed' = Append(mu_parsed,
                    parse_structured_output(ContentOrStr(response),
                                            repair_response))
             /\ mu_results' = Append(mu_results, result)
             /\ mu_pc' = AfterAppend(Append(mu_results, result))
    /\ UNCHANGED << mu_env, mu_call, mu_clients >>
    /\ UNCHANGED mu_frame

\* C23: evaluate_pr_multiple returns one result per resolved backend, in
\* resolution order, and exactly one fallback result when none is resolved.
\* A backend whose invocation raised or timed out has a failure result of
\* its own with used_llm = false, a backend whose output failed schema
\* validation has an error result with used_llm = true, and the failure of
\* one backend leaves the other backends invoked and reported.
C23_OneResultPerBackend ==
    /\ mu_pc = "done" =>
          IF mu_clients = << >>
          THEN /\ Len(mu_results) = 1
               /\ mu_invoked = << >>
               /\ HasError(mu_results[1]) /\ ~mu_results[1].used_llm
          ELSE /\ Len(mu_results) = Len(mu_clients)
               /\ Len(mu_invoked) = Len(mu_clients)
    /\ mu_pc = "loop" => Len(mu_results) < Len(mu_clients)
    /\ mu_clients # << >> =>
          /\ Len(mu_invoked) = Len(mu_results)
          /\ \A i \in DOMAIN mu_results :
                /\ WellFormed(mu_results[i])
                /\ mu_results[i].provider_used = Some(mu_clients[i].provider)
                /\ mu_results[i].model = Some(mu_clients[i].model)
                /\ mu_invoked[i] # x_ok <=> ~mu_results[i].used_llm
                /\ mu_invoked[i] # x_ok => HasError(mu_results[i])
                /\ (mu_invoked[i] = x_ok /\ mu_parsed[i].payload = NoPayload) =>
                      HasError(mu_results[i]) /\ mu_results[i].used_llm
                /\ (mu_invoked[i] = x_ok /\ mu_parsed[i].payload # NoPayload) =>
                      /\ ~HasError(mu_results[i])
                      /\ FromPayload(mu_results[i],
                             EvaluationPayload(mu_parsed[i].payload[1]))

C23_Witness ==
    /\ mu_pc = "done"
    /\ Len(mu_clients) = 2
    /\ mu_invoked = << x_timeout, x_ok >>
    /\ ~mu_results[1].used_llm
    /\ mu_results[2].used_llm /\ ~HasError(mu_results[2])

MuNext ==
    \/ EvaluatePrMultiple
    \/ RunSingleRaises
    \/ RunSingleReturns

----------------------------------------------------------------------------
(* task_decomposer.py decompose_task, context_extractor.py extract_context *)
(* and issue_formatter.py format_issue_body                                *)

x_401_models == << 69, 114, 114, 111, 114, 32, 99, 111, 100, 101, 58, 32, 52, 48, 49, 32, 45, 32, 109, 111, 100, 101, 108, 115, 32, 112, 101, 114, 109, 105, 115, 115, 105, 111, 110, 32, 100, 101, 110, 105, 101, 100 >>   \* "Error code: 401 - models permission denied"

\* what chain.invoke can do: return, or raise with a text
ChainInvokeOutcomes == { x_ok, x_401, x_401_models, x_timeout }

_is_github_models_auth_error(exc) ==
    /\ Contains(Lower(exc), << 52, 48, 49 >>)    \* "401"
    /\ Contains(Lower(exc), << 109, 111, 100, 101, 108, 115 >>)    \* "models"

\* _get_llm_client(force_openai) of task_decomposer.py and
\* context_extractor.py: the provider of the client, NoText for None
LocalLlmClient(env, force_openai) ==
    IF ~env.ChatOpenAI THEN NoText
    ELSE IF ~env.GITHUB_TOKEN /\ ~env.OPENAI_API_KEY THEN NoText
    ELSE IF env.GITHUB_TOKEN /\ ~force_openai THEN "github-models"
    ELSE IF env.OPENAI_API_KEY THEN "openai"
    ELSE NoText

\* _get_llm_client(force_openai) of the function called
_get_llm_client(fn, env, force_openai) ==
    IF fn = "format_issue_body"
    THEN ProviderOf(build_chat_client(env, << >>, << >>, force_openai))
    ELSE LocalLlmClient(env, force_openai)

\* the returns that come before any use of the LLM
EarlyReturns(fn) ==
    CASE fn = "decompose_task" -> {"none", "empty_task", "not_decomposable"}
      [] fn = "extract_context" -> {"none"}
      [] fn = "format_issue_body" -> {"none", "guard_blocked", "too_large"}

\* the return that follows a response: the LLM result, or the fall through
\* to the non-LLM result when the content is unusable (no sub-tasks, or a
\* formatted body without its required sections)
AfterResponse(fn, usable) ==
    IF fn = "extract_context" \/ usable THEN "returned_llm"
    ELSE "returned_fallback"

InvokeEntry(provider, exc) == [provider |-> provider, exc |-> exc]

DgInit ==
    /\ dg_pc = "idle"
    /\ dg_call = [fn |-> "none", use_llm |-> FALSE, early |-> "none",
                  langchain_core |-> FALSE]
    /\ dg_env = Environment(FALSE, FALSE, FALSE, TRUE, TRUE, {}, << >>, << >>,
                            _default_slots, NoSlotEnv)
    /\ dg_provider = NoText
    /\ dg_log = << >>
    /\ dg_outcome = "pending"

\* the function up to its first chain.invoke, or to its return without one
DegradeCall ==
    /\ dg_pc = "idle"
    /\ \E fn \in {"decompose_task", "extract_context", "format_issue_body"},
          env \in PlainEnvironments, use_llm \in BOOLEAN,
          langchain_core \in BOOLEAN :
          \E early \in EarlyReturns(fn) :
             LET client_info == _get_llm_client(fn, env, FALSE)
             IN /\ dg_call' = [fn |-> fn, use_llm |-> use_llm,
                               early |-> early,
                               langchain_core |-> langchain_core]
                /\ dg_env' = env
                /\ IF early # "none"
                   THEN /\ dg_provider' = NoText
                        /\ dg_pc' = "done" /\ dg_outcome' = "returned_early"
                   ELSE IF ~use_llm
                   THEN /\ dg_provider' = NoText
                        /\ dg_pc' = "done" /\ dg_outcome' = "returned_fallback"
                   ELSE IF client_info = NoText \/ ~langchain_core
                   THEN /\ dg_provider' = client_info
                        /\ dg_pc' = "done" /\ dg_outcome' = "returned_fallback"
                   ELSE /\ dg_provider' = client_info
                        /\ dg_pc' = "invoke" /\ dg_outcome' = "pending"
    /\ UNCHANGED dg_log
    /\ UNCHANGED dg_frame

\* from the first chain.invoke to the return, the raise, or the second
\* chain.invoke
DegradeInvoke ==
    /\ dg_pc = "invoke"
    /\ \E e \in ChainInvokeOutcomes, usable \in BOOLEAN :
          LET fallback_info == _get_llm_client(dg_call.fn, dg_env, TRUE)
          IN /\ dg_log' = Append(dg_log, InvokeEntry(dg_provider, e))
             /\ IF e = x_ok
                THEN /\ dg_pc' = "done"
                     /\ dg_outcome' = AfterResponse(dg_call.fn, usable)
                     /\ UNCHANGED dg_provider
                ELSE IF /\ dg_provider = "github-models"
                        /\ _is_github_models_auth_error(e)
                THEN IF fallback_info # NoText
                     THEN /\ dg_provider' = fallback_info
                          /\ dg_pc' = "retry" /\ dg_outcome' = "pending"
                     ELSE /\ dg_pc' = "done" /\ dg_outcome' = "raised"
                          /\ UNCHANGED dg_provider
                ELSE /\ dg_pc' = "done" /\ dg_outcome' = "raised"
                     /\ UNCHANGED dg_provider
    /\ UNCHANGED << dg_call, dg_env >>
    /\ UNCHANGED dg_frame

\* from the second chain.invoke, inside the except block, to the return or
\* the raise
DegradeInvokeRetry ==
    /\ dg_pc = "retry"
    /\ \E e \in ChainInvokeOutcomes, usable \in BOOLEAN :
          /\ dg_log' = Append(dg_log, InvokeEntry(dg_provider, e))
          /\ dg_outcome' = IF e = x_ok THEN AfterResponse(dg_call.fn, usable)
                           ELSE "raised"
    /\ dg_pc' = "done"
    /\ UNCHANGED << dg_call, dg_env, dg_provider >>
    /\ UNCHANGED dg_frame

\* the last chain.invoke of the call raised
BackendCallFailed ==
    dg_log # << >> /\ dg_log[Len(dg_log)].exc # x_ok

\* C22 as stated: when the backend call of decompose_task, extract_context
\* or format_issue_body fails (the first invocation, or the OpenAI retry
\* after a GitHub Models 401), nothing is raised to the caller and the
\* function returns its non-LLM fallback result.
C22_BackendFailureDegrades ==
    (dg_pc = "done" /\ BackendCallFailed) => dg_outcome = "returned_fallback"

DgNext ==
    \/ DegradeCall
    \/ DegradeInvoke
    \/ DegradeInvokeRetry

----------------------------------------------------------------------------

Init ==
    /\ SoInit
    /\ VpInit
    /\ CalInit
    /\ RsInit
    /\ FbInit
    /\ PenInit
    /\ ChInit
    /\ MuInit
    /\ DgInit

SpecParse == Init /\ [][ParseNext]_vars

SpecVerdict == Init /\ [][VerdictNext]_vars

SpecCalibrate == Init /\ [][CalNext]_vars

SpecResolve == Init /\ [][RsNext]_vars

SpecFallback == Init /\ [][FbNext]_vars

SpecPenalty == Init /\ [][PenNext]_vars

SpecChain == Init /\ [][ChNext]_vars

\* the loop of analyze_completion runs to its return or its raise: nothing
\* suspends it
SpecChainLive == Init /\ [][ChNext]_vars /\ WF_vars(ChNext)

SpecCompare == Init /\ [][MuNext]_vars

SpecDegrade == Init /\ [][DgNext]_vars

====
